---- MODULE Spec2Model ----
(***************************************************************************)
(* Text-layer cache of vue-pdf-embed: the in-memory LRU store              *)
(* (src/services/textLayerCache.ts) and the IndexedDB store                *)
(* (src/services/indexedDbCache.ts), as state machines.                    *)
(***************************************************************************)
EXTENDS Integers, Sequences, FiniteSets, TLC

\* ------------------------------------------------------------------ bounds
MaxSize == 2        \* largest configured TextLayerCache maxSize explored
MaxTime == 1        \* Date.now() ranges over 0..MaxTime
MaxRequests == 2    \* get calls explored on the TextLayerCache (hitCount + missCount)

VARIABLES
    now,            \* Date.now()
    \* TextLayerCache (textLayerCache.ts)
    cache,          \* the Map, as the sequence of its entries in insertion order
    maxSize,
    hitCount,
    missCount,
    lastWrite,      \* history: the last set/clear call completed on the TextLayerCache
    ret,            \* history: what the last TextLayerCache.get call returned
    lastUsed,       \* history: the key the last get hit or set call used
    \* IndexedDbCache (indexedDbCache.ts) and its host
    available,      \* window.indexedDB exists
    faulty,         \* requests of the engine may fail, db.transaction() may throw
    opening,        \* indexedDB.open requests in flight
    opens,          \* indexedDB.open calls made by this instance
    store,          \* object store 'textLayerCache': key -> entry
    db,             \* this.db is set
    initPromise,    \* this.initPromise: "null", "pending", "resolved", "rejected"
    maxEntries,
    dbHitCount,
    dbMissCount,
    cachedCount,
    deferredOperations,
    processingDeferred,
    flush,          \* the processDeferredOperations call in flight and its position
    timers,         \* setTimeout callbacks of scheduleDeferredProcessing not yet run
    txQueue,        \* transactions created and not yet run, in creation order
    calls,          \* public calls in flight: call id -> its arguments
    waiters,        \* calls awaiting this.initPromise, in call order
    microtasks,     \* calls whose await has settled, continuation not yet run
    budget,         \* public calls still to be made in this run
    done,           \* history: the last public call settled and its outcome
    lastPut,        \* history: the last completed put (the n-th), until a
                    \* clear, a cleanup or an eviction
    mgr,            \* the CacheManager: strategy, type and identity of its cache
    pre,            \* the preloadTextLayerCache call in flight and its locals
    view,           \* the VuePdfEmbed component: its props, document and cache
    derived,        \* the key derivation applied last and its outcome
    rendering       \* the VuePdfEmbed component: renderingController, its render
                    \* calls and the watcher callbacks in flight

memVars == <<cache, maxSize, hitCount, missCount, lastWrite, ret, lastUsed>>
idbVars == <<available, faulty, opening, opens, store, db, initPromise, maxEntries,
             dbHitCount, dbMissCount, cachedCount, deferredOperations,
             processingDeferred, flush, timers, txQueue, calls, waiters, microtasks,
             budget, done, lastPut>>
appVars == <<view, derived, rendering>>
vars == <<now, memVars, idbVars, mgr, pre, appVars>>

\* the component before any watcher has run: renderingController is null
NoRendering ==
    [controller |-> 0, aborted |-> {}, renders |-> <<>>, watchers |-> <<>>,
     ready |-> <<>>]

\* ----------------------------------------------------------------- sources
\* Source shapes of types.ts that the key derivation distinguishes.
Null == "<null>"
SrcNull == [kind |-> "null"]
SrcString(s) == [kind |-> "string", str |-> s]
SrcDoc(fps) == [kind |-> "doc", fingerprints |-> fps]

Pages == {1, 2}
Contents == {"t1", "t2"}

\* The sources the TextLayerCache is driven with.
MemSources == {SrcNull, SrcString("a.pdf")}

\* Further shapes: an ArrayBuffer and a Uint8Array (the elements of the view
\* and the buffer it views), an object that is none of the above, by the text
\* JSON.stringify gives for it (character codes) unless it is circular.
SrcBuffer(bytes) == [kind |-> "buffer", bytes |-> bytes]
SrcBytes(bytes, buffer) == [kind |-> "bytes", bytes |-> bytes, buffer |-> buffer]
SrcObject(json) == [kind |-> "object", circular |-> FALSE, json |-> json]
SrcCircular == [kind |-> "object", circular |-> TRUE]

\* the digits of Number.prototype.toString(36)
Digits36 == <<"0", "1", "2", "3", "4", "5", "6", "7", "8", "9", "a", "b", "c",
              "d", "e", "f", "g", "h", "i", "j", "k", "l", "m", "n", "o", "p",
              "q", "r", "s", "t", "u", "v", "w", "x", "y", "z">>

RECURSIVE ToBase36(_)
ToBase36(n) ==
    IF n < 0 THEN "-" \o ToBase36(0 - n)
    ELSE IF n < 36 THEN Digits36[n + 1]
    ELSE ToBase36(n \div 36) \o Digits36[(n % 36) + 1]

\* the loop of the fast hashes: hash = (hash << 5) - hash + x, hash & hash.
\* For the values of the model no intermediate result leaves the 32-bit range,
\* where `hash & hash` changes nothing.
RECURSIVE FastHash(_, _, _)
FastHash(xs, i, hash) ==
    IF i > Len(xs) THEN hash ELSE FastHash(xs, i + 1, (hash * 32 - hash) + xs[i])

\* the elements of new Uint32Array(buffer), little-endian
Uint32Words(bytes) ==
    [i \in 1..(Len(bytes) \div 4) |->
        bytes[4 * i - 3] + 256 * bytes[4 * i - 2]
            + 65536 * bytes[4 * i - 1] + 16777216 * bytes[4 * i]]

\* IndexedDbCache.fastHashString
fastHashString(codes) == ToBase36(FastHash(codes, 1, 0))

\* new Uint32Array(buffer) is a RangeError unless byteLength is a multiple of 4
Uint32ArrayThrows(bytes) == Len(bytes) % 4 # 0

\* IndexedDbCache.fastHashArrayBuffer, where it returns
fastHashArrayBuffer(bytes) ==
    ToBase36(FastHash(Uint32Words(bytes), 1, 0)) \o "_" \o ToString(Len(bytes))

\* IndexedDbCache.fastHashUint8Array
fastHashUint8Array(bytes) ==
    ToBase36(FastHash(bytes, 1, 0)) \o "_" \o ToString(Len(bytes))

\* the bytes digested, written out: SHA-256 is taken as free of collisions,
\* so that a digest is named by what was digested
RECURSIVE ByteString(_)
ByteString(bytes) ==
    IF bytes = <<>> THEN ""
    ELSE ToString(Head(bytes)) \o "," \o ByteString(Tail(bytes))

\* TextLayerCache.hashArrayBuffer / hashString
hashArrayBuffer(bytes) == "sha256(" \o ByteString(bytes) \o ")"

\* TextLayerCache.hashUint8Array: the digest of array.buffer
hashUint8Array(source) == hashArrayBuffer(source.buffer)

\* JSON.stringify throws a TypeError on a circular structure
StringifyThrows(source) == source.kind = "object" /\ source.circular

\* mutant: the page number is left out of the key
PageKey_SourceOnly(sourceKey, pageNumber) == sourceKey

\* `${sourceKey}:${pageNumber}`
PageKey(sourceKey, pageNumber) == sourceKey \o ":" \o ToString(pageNumber)

\* source.fingerprints[0] || 'unknown' when source.fingerprints is an array
FirstFingerprint(fingerprints) ==
    IF Len(fingerprints) > 0 /\ fingerprints[1] # "" THEN fingerprints[1] ELSE "unknown"

\* TextLayerCache.generateCacheKey, where it returns
generateCacheKey(source, pageNumber) ==
    LET sourceKey ==
            CASE source.kind = "null" -> "null"
              [] source.kind = "string" -> source.str
              [] source.kind = "buffer" -> hashArrayBuffer(source.bytes)
              [] source.kind = "bytes" -> hashUint8Array(source)
              [] source.kind = "doc" ->
                    "doc:" \o (IF "fingerprints" \in DOMAIN source
                               THEN FirstFingerprint(source.fingerprints)
                               ELSE "unknown")
              [] source.kind = "object" -> hashArrayBuffer(source.json)
    IN PageKey(sourceKey, pageNumber)

\* TextLayerCache.generateCacheKey throws (its promise rejects)
generateCacheKey_Throws(source) == StringifyThrows(source)

\* ------------------------------------------------------------ Map helpers
MapKeys(m) == {m[i].key : i \in 1..Len(m)}
MapHas(m, key) == key \in MapKeys(m)
MapIndex(m, key) == CHOOSE i \in 1..Len(m) : m[i].key = key
MapGet(m, key) == m[MapIndex(m, key)]
\* mutant: an existing key is left as it is
MapSet_KeepExisting(m, key, entry) ==
    IF MapHas(m, key) THEN m ELSE Append(m, entry)

\* Map.prototype.set: an existing key keeps its place in the iteration order
MapSet(m, key, entry) ==
    IF MapHas(m, key)
    THEN [m EXCEPT ![MapIndex(m, key)] = entry]
    ELSE Append(m, entry)
MapDelete(m, key) == SelectSeq(m, LAMBDA e : e.key # key)

\* --------------------------------------------------------- TextLayerCache
Infinity == MaxTime + 1

\* the loop of evictLRU: entries i..Len(m) still to visit
RECURSIVE ScanOldest(_, _, _, _)
ScanOldest(m, i, oldestKey, oldestTime) ==
    IF i > Len(m) THEN oldestKey
    ELSE IF m[i].lastAccessed < oldestTime
         THEN ScanOldest(m, i + 1, m[i].key, m[i].lastAccessed)
         ELSE ScanOldest(m, i + 1, oldestKey, oldestTime)

\* mutant: the first inserted entry is the victim (FIFO instead of LRU)
OldestKey_Fifo(m) == IF Len(m) = 0 THEN "" ELSE m[1].key

OldestKey(m) == ScanOldest(m, 1, "", Infinity)

evictLRU(m) ==
    LET oldestKey == OldestKey(m)
    IN IF oldestKey # "" THEN MapDelete(m, oldestKey) ELSE m

\* mutant: a set at capacity evicts whether or not the key is stored
NeedsEviction_AnyKey(m, key) == Len(m) >= maxSize

\* mutant: evicts only once the map is already over capacity
NeedsEviction_OffByOne(m, key) == Len(m) > maxSize /\ ~MapHas(m, key)

\* the capacity test of set
NeedsEviction(m, key) == Len(m) >= maxSize /\ ~MapHas(m, key)

TextLayerCache_set(source, pageNumber, content) ==
    LET key == generateCacheKey(source, pageNumber)
        evict == NeedsEviction(cache, key)
        kept == IF evict THEN evictLRU(cache) ELSE cache
    IN /\ cache' = MapSet(kept, key,
                     [key |-> key, content |-> content,
                      lastAccessed |-> now, accessCount |-> 1])
       /\ lastWrite' = [op |-> "set", source |-> source, page |-> pageNumber,
                        content |-> content,
                        evicted |-> IF evict THEN OldestKey(cache) ELSE ""]
       /\ lastUsed' = key
       /\ UNCHANGED <<maxSize, hitCount, missCount, ret, now, idbVars, mgr, pre, appVars>>

TextLayerCache_get(source, pageNumber) ==
    LET key == generateCacheKey(source, pageNumber)
    IN /\ hitCount + missCount < MaxRequests
       /\ IF MapHas(cache, key)
          THEN LET entry == MapGet(cache, key)
               IN /\ cache' = MapSet(cache, key,
                                [entry EXCEPT !.lastAccessed = now,
                                              !.accessCount = @ + 1])
                  /\ hitCount' = hitCount + 1
                  /\ missCount' = missCount
                  /\ ret' = entry.content
                  /\ lastUsed' = key
          ELSE /\ missCount' = missCount + 1
               /\ ret' = Null
               /\ UNCHANGED <<cache, hitCount, lastUsed>>
       /\ UNCHANGED <<maxSize, lastWrite, now, idbVars, mgr, pre, appVars>>

TextLayerCache_clear ==
    /\ cache' = <<>>
    /\ hitCount' = 0
    /\ missCount' = 0
    /\ lastWrite' = [op |-> "clear"]
    /\ lastUsed' = ""
    /\ UNCHANGED <<maxSize, ret, now, idbVars, mgr, pre, appVars>>

\* Date.now() advances
Tick ==
    /\ microtasks = <<>>
    /\ now < MaxTime
    /\ now' = now + 1
    /\ UNCHANGED <<memVars, idbVars, mgr, pre, appVars>>

\* no CacheManager: the store is used directly
NoManager == [strategy |-> "none"]

\* no preloadTextLayerCache call has been made
NoPreload == [pc |-> "idle"]

\* no VuePdfEmbed component is mounted
NoView == [pc |-> "unmounted"]

\* no key has been derived
NoKey == [op |-> "none"]

\* the flush continuation among the microtasks: no call has this id
FlushId == 0

\* no processDeferredOperations call is in flight
NoFlush == [pc |-> "idle"]

\* the IndexedDbCache as constructed, on a host without IndexedDB
IdleIndexedDb ==
    /\ available = FALSE
    /\ faulty = FALSE
    /\ opening = 0
    /\ opens = 0
    /\ store = [k \in {} |-> 0]
    /\ db = FALSE
    /\ initPromise = "null"
    /\ maxEntries = 1
    /\ dbHitCount = 0
    /\ dbMissCount = 0
    /\ cachedCount = 0
    /\ deferredOperations = {}
    /\ processingDeferred = FALSE
    /\ flush = NoFlush
    /\ timers = 0
    /\ txQueue = <<>>
    /\ calls = [c \in {} |-> 0]
    /\ waiters = <<>>
    /\ microtasks = <<>>
    /\ budget = 0
    /\ done = [op |-> "none"]
    /\ lastPut = [key |-> "", n |-> 0]

InitMemory ==
    /\ now = 0
    /\ mgr = NoManager
    /\ pre = NoPreload
    /\ view = NoView
    /\ derived = NoKey
    /\ rendering = NoRendering
    /\ IdleIndexedDb
    /\ cache = <<>>
    /\ maxSize \in 1..MaxSize
    /\ hitCount = 0
    /\ missCount = 0
    /\ lastWrite = [op |-> "none"]
    /\ ret = "<none>"
    /\ lastUsed = ""

NextMemory ==
    \/ \E s \in MemSources, p \in Pages, c \in Contents : TextLayerCache_set(s, p, c)
    \/ \E s \in MemSources, p \in Pages : TextLayerCache_get(s, p)
    \/ TextLayerCache_clear
    \/ Tick

SpecMemory == InitMemory /\ [][NextMemory]_vars

\* --------------------------------------------------- TextLayerCache claims

\* C1: in every state between operations the TextLayerCache holds at most
\* maxSize entries, for every maxSize >= 1 and every sequence of get/set/clear.
C1_SizeNeverExceedsMax == Len(cache) <= maxSize

\* a set has evicted an entry and left the store full
C1_Witness ==
    /\ lastWrite.op = "set"
    /\ lastWrite.evicted # ""
    /\ Len(cache) = maxSize

\* C2: a set of a key that is not stored, on a store that holds maxSize entries,
\* removes exactly one of the stored keys, one whose lastAccessed is the smallest
\* at that moment; the other stored keys and the new key are present afterwards.
C2_EvictsLeastRecentlyUsed ==
    [][ \A key \in MapKeys(cache') \ MapKeys(cache) :
          Len(cache) = maxSize =>
            \E old \in MapKeys(cache) :
              /\ \A k \in MapKeys(cache) :
                    MapGet(cache, old).lastAccessed <= MapGet(cache, k).lastAccessed
              /\ MapKeys(cache') = (MapKeys(cache) \ {old}) \cup {key}
      ]_vars

\* maxSize + 1 keys were set on a store of at least two entries, with a get hit
\* in between, and the last set evicted one
C2_Witness ==
    /\ maxSize >= 2
    /\ hitCount >= 1
    /\ lastWrite.op = "set"
    /\ lastWrite.evicted # ""
    /\ Len(cache) = maxSize
    /\ \E i, j \in 1..Len(cache) : cache[i].lastAccessed < cache[j].lastAccessed

\* C3: a get(source, page) that follows set(source, page, content) with no other
\* set or clear in between (other gets may lie in between) returns that content.
C3_GetReturnsLastSet ==
    [][ \A s \in MemSources, p \in Pages :
          ( /\ lastWrite.op = "set"
            /\ lastWrite.source = s
            /\ lastWrite.page = p
            /\ TextLayerCache_get(s, p) )
          => ret' = lastWrite.content
      ]_vars

\* the key of the last set was overwritten by that set and has been read since
C3_Witness ==
    /\ lastWrite.op = "set"
    /\ LET key == generateCacheKey(lastWrite.source, lastWrite.page)
       IN /\ MapHas(cache, key)
          /\ MapGet(cache, key).accessCount >= 2
    /\ ret = lastWrite.content
    /\ ret = "t2"

\* ========================================================= IndexedDbCache
MaxEntries == 2       \* largest configured maxEntries explored
ExpirationMs == 1     \* this.expirationMs, in clock ticks
MaxCalls == 2         \* public calls in flight at once
MaxDbRequests == 2    \* get calls explored between two clears
MaxTimers == 2        \* pending setTimeout callbacks explored
MaxOps == 4           \* public calls explored in one run
MaxFaultyOps == 2     \* public calls explored in one run on a faulty host
MaxFairOps == 3       \* public calls explored in one run under fair scheduling

IdbSources == {SrcString("a.pdf")}
CallIds == 1..MaxCalls

\* IndexedDbCache.generateCacheKeySync, where it returns
generateCacheKeySync(source, pageNumber) ==
    LET sourceKey ==
            CASE source.kind = "null" -> "null"
              [] source.kind = "string" -> source.str
              [] source.kind = "buffer" -> fastHashArrayBuffer(source.bytes)
              [] source.kind = "bytes" -> fastHashUint8Array(source.bytes)
              [] source.kind = "doc" ->
                    "doc:" \o (IF "fingerprints" \in DOMAIN source
                               THEN FirstFingerprint(source.fingerprints)
                               ELSE IF "fingerprint" \in DOMAIN source
                               THEN source.fingerprint
                               ELSE IF "pdfInfo" \in DOMAIN source
                               THEN FirstFingerprint(source.pdfInfo)
                               ELSE "unknown")
              [] source.kind = "object" -> fastHashString(source.json)
    IN PageKey(sourceKey, pageNumber)

\* IndexedDbCache.generateCacheKeySync throws
generateCacheKeySync_Throws(source) ==
    \/ source.kind = "buffer" /\ Uint32ArrayThrows(source.bytes)
    \/ StringifyThrows(source)

\* the keys of the object store in IndexedDB's key order
IdbKeyOrder == <<"a.pdf:1", "a.pdf:2">>
KeyRank(k) == CHOOSE i \in 1..Len(IdbKeyOrder) : IdbKeyOrder[i] = k

\* ---------------------------------------------------------- object store
EmptyStore == [k \in {} |-> 0]
StoreCount(st) == Cardinality(DOMAIN st)
StorePut(st, entry) ==
    [k \in DOMAIN st \cup {entry.key} |-> IF k = entry.key THEN entry ELSE st[k]]
StoreDelete(st, keys) == [k \in DOMAIN st \ keys |-> st[k]]

\* the first key of the 'lastAccessed' index: by lastAccessed, then by key
FirstByLastAccessed(st) ==
    CHOOSE k \in DOMAIN st :
        \A j \in DOMAIN st :
            \/ st[k].lastAccessed < st[j].lastAccessed
            \/ st[k].lastAccessed = st[j].lastAccessed /\ KeyRank(k) <= KeyRank(j)

\* the keys evictOldest(count) deletes: the cursor's first `count` entries
RECURSIVE OldestKeys(_, _)
OldestKeys(st, count) ==
    IF count <= 0 \/ DOMAIN st = {} THEN {}
    ELSE LET k == FirstByLastAccessed(st)
         IN {k} \cup OldestKeys(StoreDelete(st, {k}), count - 1)

\* Math.floor(this.maxEntries * 0.1)
EvictCount == maxEntries \div 10

Max0(n) == IF n < 0 THEN 0 ELSE n

\* ------------------------------------------------------------ bookkeeping
NoCall == [c \in {} |-> 0]
FreeIds == CallIds \ DOMAIN calls
NewId == CHOOSE c \in FreeIds : \A d \in FreeIds : c <= d
AddCall(c, rec) == [d \in DOMAIN calls \cup {c} |-> IF d = c THEN rec ELSE calls[d]]
DropCall(c) == [d \in DOMAIN calls \ {c} |-> calls[d]]
GetsInFlight == Cardinality({c \in DOMAIN calls : calls[c].op = "get"})

Settled(op, key, outcome, value) ==
    [op |-> op, key |-> key, outcome |-> outcome, value |-> value]

\* IndexedDbCache.getStats().size
getStats == cachedCount

\* db.transaction() may throw, a request may fail, on a faulty host only
Throws == IF faulty THEN BOOLEAN ELSE {FALSE}
Succeeds == IF faulty THEN BOOLEAN ELSE {TRUE}

\* ------------------------------------------------------ ensureInitialized
\* mutant: an initialization in flight is not noticed
InitInFlight_Ignored == FALSE

\* mutant: a rejected initialization is forgotten
InitInFlight_PendingOnly == initPromise = "pending"

\* ensureInitialized: this.initPromise is set
InitInFlight == initPromise # "null"

\* The synchronous part of a public call c: ensureInitialized(), down to its
\* await. awaits |-> "promise" when the call awaits this.initPromise.
ensureInitialized(c, rec) ==
    IF db
    THEN /\ calls' = AddCall(c, [rec EXCEPT !.awaits = "db"])
         /\ microtasks' = Append(microtasks, c)
         /\ UNCHANGED <<initPromise, opening, opens, waiters>>
    ELSE IF InitInFlight
    THEN /\ calls' = AddCall(c, [rec EXCEPT !.awaits = "promise"])
         /\ IF initPromise = "pending"
            THEN waiters' = Append(waiters, c) /\ UNCHANGED microtasks
            ELSE microtasks' = Append(microtasks, c) /\ UNCHANGED waiters
         /\ UNCHANGED <<initPromise, opening, opens>>
    ELSE \* initialize()
         /\ calls' = AddCall(c, [rec EXCEPT !.awaits = "promise"])
         /\ IF ~available
            THEN /\ initPromise' = "rejected"
                 /\ microtasks' = Append(microtasks, c)
                 /\ UNCHANGED <<opening, opens, waiters>>
            ELSE /\ initPromise' = "pending"
                 /\ opening' = opening + 1
                 /\ opens' = opens + 1
                 /\ waiters' = Append(waiters, c)
                 /\ UNCHANGED microtasks

\* A public operation is called: get, set, clear, cleanup or getStatsAsync.
Call(op, source, pageNumber, content) ==
    /\ microtasks = <<>>
    /\ FreeIds # {}
    /\ budget > 0
    /\ budget' = budget - 1
    /\ op = "get" =>
          /\ dbHitCount + dbMissCount + GetsInFlight < MaxDbRequests
          /\ timers + GetsInFlight < MaxTimers
    /\ ensureInitialized(NewId,
          [op |-> op, awaits |-> "",
           key |-> IF op \in {"get", "set"}
                   THEN generateCacheKeySync(source, pageNumber) ELSE "",
           content |-> IF op = "set" THEN content ELSE Null])
    /\ UNCHANGED <<now, memVars, mgr, pre, available, faulty, store, db, maxEntries,
                   dbHitCount, dbMissCount, cachedCount, deferredOperations,
                   processingDeferred, flush, timers, txQueue, done, lastPut, appVars>>

\* initPromise settles: the calls awaiting it continue, in call order
SettleInit(outcome) ==
    /\ initPromise' = outcome
    /\ microtasks' = microtasks \o waiters
    /\ waiters' = <<>>

\* request.onsuccess of indexedDB.open: this.db is set, initializeCacheCount
OpenSuccess ==
    /\ microtasks = <<>>
    /\ opening > 0
    /\ opening' = opening - 1
    /\ db' = TRUE
    /\ \E throws \in Throws :
          IF throws
          THEN \* initializeCacheCount catches, the promise resolves
               /\ cachedCount' = 0
               /\ SettleInit("resolved")
               /\ UNCHANGED txQueue
          ELSE /\ txQueue' = Append(txQueue, [kind |-> "initCount"])
               /\ UNCHANGED <<cachedCount, initPromise, microtasks, waiters>>
    /\ UNCHANGED <<now, memVars, mgr, pre, budget, available, faulty, opens, store, maxEntries,
                   dbHitCount, dbMissCount, deferredOperations,
                   processingDeferred, flush, timers, calls, done, lastPut, appVars>>

\* request.onerror of indexedDB.open
OpenError ==
    /\ microtasks = <<>>
    /\ faulty
    /\ opening > 0
    /\ opening' = opening - 1
    /\ SettleInit("rejected")
    /\ UNCHANGED <<now, memVars, mgr, pre, budget, available, faulty, opens, store, db, maxEntries,
                   dbHitCount, dbMissCount, cachedCount, deferredOperations,
                   processingDeferred, flush, timers, txQueue, calls, done, lastPut, appVars>>

\* ------------------------------------------------ after await ensureInitialized
\* mutant: the catch block of get does not count the miss
GetCatchMiss_NotCounted == dbMissCount

\* catch block of get: this.missCount++
GetCatchMiss == dbMissCount + 1

\* what a call returns from its catch block or from `if (!this.db) return`
DefaultValue(op) ==
    CASE op \in {"get", "set", "clear"} -> Null
      [] op = "cleanup" -> 0
      [] op = "stats" -> getStats

\* the transactions a call creates, in creation order
Transactions(c, rec) ==
    CASE rec.op = "get" ->
            <<[kind |-> "get", call |-> c, key |-> rec.key,
               after |-> IF lastPut.key = rec.key THEN lastPut.n ELSE 0]>>
      [] rec.op = "set" ->
            <<[kind |-> "evictCheck", call |-> c],
              [kind |-> "put", call |-> c,
               entry |-> [key |-> rec.key, content |-> rec.content,
                          lastAccessed |-> now, accessCount |-> 1,
                          createdAt |-> now, expiresAt |-> now + ExpirationMs]]>>
      [] rec.op = "clear" -> <<[kind |-> "clear", call |-> c]>>
      [] rec.op = "cleanup" -> <<[kind |-> "cleanup", call |-> c, at |-> now]>>
      [] rec.op = "stats" -> <<[kind |-> "count", call |-> c]>>

\* The continuation of the first call whose await has settled: the body of
\* get/set/clear/cleanup/getStatsAsync below `await this.ensureInitialized()`,
\* down to the promise it returns.
Continue ==
    /\ microtasks # <<>>
    /\ Head(microtasks) \in DOMAIN calls
    /\ LET c == Head(microtasks)
           rec == calls[c]
           failed == rec.awaits = "promise" /\ initPromise = "rejected"
       IN /\ microtasks' = Tail(microtasks)
          /\ \E throws \in Throws :
                LET caught == failed \/ (db /\ throws)
                    early == ~failed /\ ~db
                IN IF caught \/ early
                   THEN /\ calls' = DropCall(c)
                        /\ done' = Settled(rec.op, rec.key, "resolved", DefaultValue(rec.op))
                        /\ dbMissCount' = IF rec.op = "get" /\ caught
                                          THEN GetCatchMiss ELSE dbMissCount
                        /\ UNCHANGED txQueue
                   ELSE /\ txQueue' = txQueue \o Transactions(c, rec)
                        /\ UNCHANGED <<calls, done, dbMissCount>>
    /\ UNCHANGED <<now, memVars, mgr, pre, budget, available, faulty, opening, opens, store, db,
                   initPromise, maxEntries, dbHitCount, cachedCount,
                   deferredOperations, processingDeferred, flush, timers, waiters, lastPut, appVars>>

\* ------------------------------------------------------------ transactions
HeadIs(kind) ==
    /\ microtasks = <<>>
    /\ txQueue # <<>>
    /\ Head(txQueue).kind = kind

\* initializeCacheCount: countRequest.onsuccess / onerror
TxInitCount(ok) ==
    /\ HeadIs("initCount")
    /\ txQueue' = Tail(txQueue)
    /\ IF ok
       THEN cachedCount' = StoreCount(store) /\ SettleInit("resolved")
       ELSE UNCHANGED cachedCount /\ SettleInit("rejected")
    /\ UNCHANGED <<now, memVars, mgr, pre, budget, available, faulty, opening, opens, store, db,
                   maxEntries, dbHitCount, dbMissCount, deferredOperations,
                   processingDeferred, flush, timers, calls, done, lastPut, appVars>>

\* mutant: no timer is set
scheduleDeferredProcessing_NoTimer == timers

\* scheduleDeferredProcessing: the timers pending afterwards
scheduleDeferredProcessing == IF processingDeferred THEN timers ELSE timers + 1

\* mutant: an entry that expires now is still served
IsFresh_Inclusive(entry) == entry.expiresAt >= now

\* get: entry.expiresAt > Date.now()
IsFresh(entry) == entry.expiresAt > now

\* get: entry.expiresAt <= Date.now()
IsExpired(entry) == entry.expiresAt <= now

\* mutant: a hit writes the access statistics in a transaction of its own
GetHitWrites_Inline(key) == <<[kind |-> "access", keys |-> {key}, at |-> now]>>

\* the transactions the onsuccess handler of get creates on a hit: none
GetHitWrites(key) == <<>>

\* get: request.onsuccess / request.onerror
TxGet(ok) ==
    /\ HeadIs("get")
    /\ LET h == Head(txQueue)
           found == h.key \in DOMAIN store
       IN /\ calls' = DropCall(h.call)
          /\ IF ~ok
             THEN /\ dbMissCount' = dbMissCount + 1
                  /\ done' = Settled("get", h.key, "rejected", Null)
                  /\ txQueue' = Tail(txQueue)
                  /\ UNCHANGED <<dbHitCount, deferredOperations, timers>>
             ELSE IF found /\ IsFresh(store[h.key])
             THEN /\ dbHitCount' = dbHitCount + 1
                  /\ deferredOperations' = deferredOperations \cup {<<"access", h.key>>}
                  /\ timers' = scheduleDeferredProcessing
                  /\ done' = Settled("get", h.key, "resolved", store[h.key].content)
                  /\ txQueue' = Tail(txQueue) \o GetHitWrites(h.key)
                  /\ UNCHANGED dbMissCount
             ELSE /\ dbMissCount' = dbMissCount + 1
                  /\ IF found /\ IsExpired(store[h.key])
                     THEN /\ deferredOperations' = deferredOperations \cup {<<"remove", h.key>>}
                          /\ timers' = scheduleDeferredProcessing
                     ELSE UNCHANGED <<deferredOperations, timers>>
                  /\ done' = Settled("get", h.key, "resolved", Null)
                  /\ txQueue' = Tail(txQueue)
                  /\ UNCHANGED dbHitCount
    /\ UNCHANGED <<now, memVars, mgr, pre, budget, available, faulty, opening, opens, store, db,
                   initPromise, maxEntries, cachedCount, processingDeferred, flush,
                   waiters, microtasks, lastPut, appVars>>

\* evictIfNeeded: countRequest.onsuccess, which calls evictOldest
TxEvictCheck(ok) ==
    /\ HeadIs("evictCheck")
    /\ \E throws \in Throws :
          txQueue' = IF ok /\ StoreCount(store) >= maxEntries /\ db /\ ~throws
                     THEN Append(Tail(txQueue), [kind |-> "evict", call |-> Head(txQueue).call,
                                                 count |-> EvictCount])
                     ELSE Tail(txQueue)
    /\ UNCHANGED <<now, memVars, mgr, pre, budget, available, faulty, opening, opens, store, db,
                   initPromise, maxEntries, dbHitCount, dbMissCount, cachedCount,
                   deferredOperations, processingDeferred, flush, timers, calls, waiters,
                   microtasks, done, lastPut, appVars>>

\* set: existingRequest.onsuccess and putRequest.onsuccess / their onerror
TxPut(ok) ==
    /\ HeadIs("put")
    /\ LET h == Head(txQueue)
           isNewEntry == h.entry.key \notin DOMAIN store
       IN /\ calls' = DropCall(h.call)
          /\ txQueue' = Tail(txQueue)
          /\ IF ok
             THEN /\ store' = StorePut(store, h.entry)
                  /\ cachedCount' = IF isNewEntry THEN cachedCount + 1 ELSE cachedCount
                  /\ done' = Settled("set", h.entry.key, "resolved", Null)
                  /\ lastPut' = [key |-> h.entry.key, content |-> h.entry.content,
                                 expiresAt |-> h.entry.expiresAt, n |-> lastPut.n + 1]
             ELSE /\ done' = Settled("set", h.entry.key, "rejected", Null)
                  /\ UNCHANGED <<store, cachedCount, lastPut>>
    /\ UNCHANGED <<now, memVars, mgr, pre, budget, available, faulty, opening, opens, db,
                   initPromise, maxEntries, dbHitCount, dbMissCount,
                   deferredOperations, processingDeferred, flush, timers, waiters,
                   microtasks, appVars>>

\* evictOldest: the cursor over the 'lastAccessed' index
TxEvict(ok) ==
    /\ HeadIs("evict")
    /\ txQueue' = Tail(txQueue)
    /\ LET victims == OldestKeys(store, Head(txQueue).count)
       IN IF ok
          THEN /\ store' = StoreDelete(store, victims)
               /\ cachedCount' = Max0(cachedCount - Cardinality(victims))
               /\ lastPut' = IF victims # {} THEN [key |-> "", n |-> lastPut.n] ELSE lastPut
          ELSE UNCHANGED <<store, cachedCount, lastPut>>
    /\ UNCHANGED <<now, memVars, mgr, pre, budget, available, faulty, opening, opens, db,
                   initPromise, maxEntries, dbHitCount, dbMissCount,
                   deferredOperations, processingDeferred, flush, timers, calls, waiters,
                   microtasks, done, appVars>>

\* clear: request.onsuccess / request.onerror
TxClear(ok) ==
    /\ HeadIs("clear")
    /\ calls' = DropCall(Head(txQueue).call)
    /\ txQueue' = Tail(txQueue)
    /\ IF ok
       THEN /\ store' = EmptyStore
            /\ dbHitCount' = 0
            /\ dbMissCount' = 0
            /\ cachedCount' = 0
            /\ done' = Settled("clear", "", "resolved", Null)
            /\ lastPut' = [key |-> "", n |-> lastPut.n]
       ELSE /\ done' = Settled("clear", "", "rejected", Null)
            /\ UNCHANGED <<store, dbHitCount, dbMissCount, cachedCount, lastPut>>
    /\ UNCHANGED <<now, memVars, mgr, pre, budget, available, faulty, opening, opens, db,
                   initPromise, maxEntries, deferredOperations,
                   processingDeferred, flush, timers, waiters, microtasks, appVars>>

\* getStatsAsync: countRequest.onsuccess / onerror
TxCount(ok) ==
    /\ HeadIs("count")
    /\ calls' = DropCall(Head(txQueue).call)
    /\ txQueue' = Tail(txQueue)
    /\ done' = IF ok THEN Settled("stats", "", "resolved", StoreCount(store))
                     ELSE Settled("stats", "", "rejected", 0)
    /\ UNCHANGED <<now, memVars, mgr, pre, budget, available, faulty, opening, opens, store, db,
                   initPromise, maxEntries, dbHitCount, dbMissCount, cachedCount,
                   deferredOperations, processingDeferred, flush, timers, waiters,
                   microtasks, lastPut, appVars>>

\* cleanup: the cursor over the whole store
\* mutant: an entry that expires at the time of the call is removed as well
CleanupExpired_Inclusive(entry, at) == entry.expiresAt <= at

\* the test of the cleanup cursor: entry.expiresAt < now
CleanupExpired(entry, at) == entry.expiresAt < at

TxCleanup(ok) ==
    /\ HeadIs("cleanup")
    /\ calls' = DropCall(Head(txQueue).call)
    /\ txQueue' = Tail(txQueue)
    /\ LET expired == {k \in DOMAIN store : CleanupExpired(store[k], Head(txQueue).at)}
           deletedCount == Cardinality(expired)
       IN IF ok
          THEN /\ store' = StoreDelete(store, expired)
               /\ cachedCount' = Max0(cachedCount - deletedCount)
               /\ done' = Settled("cleanup", "", "resolved", deletedCount)
               /\ lastPut' = [key |-> "", n |-> lastPut.n]
          ELSE /\ done' = Settled("cleanup", "", "rejected", 0)
               /\ UNCHANGED <<store, cachedCount, lastPut>>
    /\ UNCHANGED <<now, memVars, mgr, pre, budget, available, faulty, opening, opens, db,
                   initPromise, maxEntries, dbHitCount, dbMissCount,
                   deferredOperations, processingDeferred, flush, timers, waiters,
                   microtasks, appVars>>

\* batchUpdateAccessStats: the get/put pairs of its transaction
\* mutant: the update writes an entry for every key, stored or not
AccessUpdate_Recreates(st, keys, at) ==
    [k \in DOMAIN st \cup keys |->
        IF k \in DOMAIN st
        THEN IF k \in keys
             THEN [st[k] EXCEPT !.lastAccessed = at, !.accessCount = @ + 1]
             ELSE st[k]
        ELSE [key |-> k, content |-> Null, lastAccessed |-> at, accessCount |-> 1,
              createdAt |-> at, expiresAt |-> at + ExpirationMs]]

\* the getRequest.onsuccess handlers of batchUpdateAccessStats: every key that
\* is still stored gets lastAccessed = now and accessCount + 1
AccessUpdate(st, keys, at) ==
    [k \in DOMAIN st |->
        IF k \in keys
        THEN [st[k] EXCEPT !.lastAccessed = at, !.accessCount = @ + 1]
        ELSE st[k]]

TxAccess(ok) ==
    /\ HeadIs("access")
    /\ txQueue' = Tail(txQueue)
    /\ LET h == Head(txQueue)
       IN store' = IF ok THEN AccessUpdate(store, h.keys, h.at) ELSE store
    /\ UNCHANGED <<now, memVars, mgr, pre, budget, available, faulty, opening, opens, db,
                   initPromise, maxEntries, dbHitCount, dbMissCount, cachedCount,
                   deferredOperations, processingDeferred, flush, timers, calls, waiters,
                   microtasks, done, lastPut, appVars>>

\* batchRemoveEntries: the deletes of its transaction
TxRemove(ok) ==
    /\ HeadIs("remove")
    /\ txQueue' = Tail(txQueue)
    /\ store' = IF ok THEN StoreDelete(store, Head(txQueue).keys) ELSE store
    /\ UNCHANGED <<now, memVars, mgr, pre, budget, available, faulty, opening, opens, db,
                   initPromise, maxEntries, dbHitCount, dbMissCount, cachedCount,
                   deferredOperations, processingDeferred, flush, timers, calls, waiters,
                   microtasks, done, lastPut, appVars>>

\* processDeferredOperations, line 560: the attempt returns at once
FlushSkipped == processingDeferred \/ deferredOperations = {}

\* mutant: the finally block leaves the guard flag set
FlushReleased_Never == processingDeferred

\* processDeferredOperations, finally: this.processingDeferred = false
FlushReleased == FALSE

\* batchUpdateAccessStats(keys), down to its return: the transaction it creates
batchUpdateAccessStats(keys, works) ==
    IF works THEN <<[kind |-> "access", keys |-> keys, at |-> now]>> ELSE <<>>

\* batchRemoveEntries(keys), down to its return: the transaction it creates and
\* the count it leaves in this.cachedCount
batchRemoveEntries(keys, works) ==
    /\ txQueue' = txQueue \o (IF works THEN <<[kind |-> "remove", keys |-> keys]>>
                                       ELSE <<>>)
    /\ cachedCount' = IF works THEN Max0(cachedCount - Cardinality(keys))
                               ELSE cachedCount

\* The setTimeout callback of scheduleDeferredProcessing runs
\* processDeferredOperations down to its first await (or to its return).
\* mutant: the flush leaves the descriptors it has copied in the pending set
PendingAfterTake_Kept == deferredOperations

\* processDeferredOperations: this.deferredOperations.clear()
PendingAfterTake == {}

TimerFires ==
    /\ microtasks = <<>>
    /\ timers > 0
    /\ timers' = timers - 1
    /\ IF FlushSkipped
       THEN UNCHANGED <<deferredOperations, processingDeferred, flush, txQueue,
                        cachedCount, microtasks>>
       ELSE LET accessKeys == {o[2] : o \in {x \in deferredOperations : x[1] = "access"}}
                removeKeys == {o[2] : o \in {x \in deferredOperations : x[1] = "remove"}}
            IN /\ deferredOperations' = PendingAfterTake
               /\ IF ~db
                  THEN /\ processingDeferred' = FlushReleased
                       /\ UNCHANGED <<flush, txQueue, cachedCount, microtasks>>
                  ELSE /\ processingDeferred' = TRUE
                       /\ microtasks' = <<FlushId>>
                       /\ \E throws \in Throws :
                             IF accessKeys # {}
                             THEN /\ txQueue' = txQueue
                                        \o batchUpdateAccessStats(accessKeys, ~throws)
                                  /\ flush' = [pc |-> "accessed", removeKeys |-> removeKeys]
                                  /\ UNCHANGED cachedCount
                             ELSE /\ batchRemoveEntries(removeKeys, ~throws)
                                  /\ flush' = [pc |-> "removed"]
    /\ UNCHANGED <<now, memVars, mgr, pre, budget, available, faulty, opening, opens, store, db,
                   initPromise, maxEntries, dbHitCount, dbMissCount, calls,
                   waiters, done, lastPut, appVars>>

\* processDeferredOperations continues after an await: the removals after the
\* access-stat updates, then the finally block.
FlushContinue ==
    /\ microtasks # <<>>
    /\ Head(microtasks) = FlushId
    /\ IF flush.pc = "accessed" /\ flush.removeKeys # {}
       THEN /\ \E throws \in Throws : batchRemoveEntries(flush.removeKeys, ~throws)
            /\ flush' = [pc |-> "removed"]
            /\ UNCHANGED <<processingDeferred, microtasks>>
       ELSE /\ processingDeferred' = FlushReleased
            /\ flush' = NoFlush
            /\ microtasks' = Tail(microtasks)
            /\ UNCHANGED <<txQueue, cachedCount>>
    /\ UNCHANGED <<now, memVars, mgr, pre, budget, available, faulty, opening, opens, store, db,
                   initPromise, maxEntries, dbHitCount, dbMissCount,
                   deferredOperations, timers, calls, waiters, done, lastPut, appVars>>

\* the TextLayerCache as constructed
IdleMemory ==
    /\ cache = <<>>
    /\ maxSize = 1
    /\ hitCount = 0
    /\ missCount = 0
    /\ lastWrite = [op |-> "none"]
    /\ ret = "<none>"
    /\ lastUsed = ""

\* the IndexedDbCache as constructed, over an empty database
Constructed ==
    /\ now = 0
    /\ mgr = NoManager
    /\ pre = NoPreload
    /\ view = NoView
    /\ derived = NoKey
    /\ rendering = NoRendering
    /\ IdleMemory
    /\ opening = 0
    /\ opens = 0
    /\ store = EmptyStore
    /\ db = FALSE
    /\ initPromise = "null"
    /\ maxEntries \in 1..MaxEntries
    /\ dbHitCount = 0
    /\ dbMissCount = 0
    /\ cachedCount = 0
    /\ deferredOperations = {}
    /\ processingDeferred = FALSE
    /\ flush = NoFlush
    /\ timers = 0
    /\ txQueue = <<>>
    /\ calls = NoCall
    /\ waiters = <<>>
    /\ microtasks = <<>>
    /\ done = [op |-> "none"]
    /\ lastPut = [key |-> "", n |-> 0]

\* a host with or without IndexedDB; where it exists, its requests succeed
InitIndexedDb ==
    /\ Constructed
    /\ available \in BOOLEAN
    /\ faulty = FALSE
    /\ budget = MaxOps

\* a host with IndexedDB whose requests may fail
InitFaulty ==
    /\ Constructed
    /\ available = TRUE
    /\ faulty = TRUE
    /\ budget = MaxFaultyOps

\* the steps of a host whose engine works whenever it exists
NextIndexedDb ==
    \/ \E s \in IdbSources, p \in Pages : Call("get", s, p, Null)
    \/ \E s \in IdbSources, p \in Pages, c \in Contents : Call("set", s, p, c)
    \/ \E op \in {"clear", "cleanup", "stats"} : Call(op, SrcNull, 1, Null)
    \/ OpenSuccess
    \/ Continue
    \/ \E ok \in Succeeds : TxInitCount(ok)
    \/ \E ok \in Succeeds : TxGet(ok)
    \/ \E ok \in Succeeds : TxEvictCheck(ok)
    \/ \E ok \in Succeeds : TxPut(ok)
    \/ \E ok \in Succeeds : TxEvict(ok)
    \/ \E ok \in Succeeds : TxClear(ok)
    \/ \E ok \in Succeeds : TxCount(ok)
    \/ \E ok \in Succeeds : TxCleanup(ok)
    \/ \E ok \in Succeeds : TxAccess(ok)
    \/ \E ok \in Succeeds : TxRemove(ok)
    \/ TimerFires
    \/ FlushContinue
    \/ Tick

SpecIndexedDb == InitIndexedDb /\ [][NextIndexedDb]_vars

NextFaulty == NextIndexedDb \/ OpenError

\* window.indexedDB is defined after the page was loaded without it
EngineAppears ==
    /\ microtasks = <<>>
    /\ ~available
    /\ available' = TRUE
    /\ UNCHANGED <<now, memVars, mgr, pre, budget, faulty, opening, opens, store, db,
                   initPromise, maxEntries, dbHitCount, dbMissCount, cachedCount,
                   deferredOperations, processingDeferred, flush, timers, txQueue,
                   calls, waiters, microtasks, done, lastPut, appVars>>

\* a host whose engine may be missing at first and whose requests may fail
InitRecovery ==
    /\ Constructed
    /\ available \in BOOLEAN
    /\ faulty = TRUE
    /\ budget = MaxFaultyOps

NextRecovery == NextFaulty \/ EngineAppears

SpecRecovery == InitRecovery /\ [][NextRecovery]_vars

SpecFaulty == InitFaulty /\ [][NextFaulty]_vars

\* a host whose IndexedDB works, for the runs under fair scheduling
InitFair ==
    /\ Constructed
    /\ available = TRUE
    /\ faulty = FALSE
    /\ budget = MaxFairOps

\* public calls made on a database an earlier session has filled
MaxPersistedOps == 2

\* the times at which an earlier session wrote the entries the database holds
PriorTimes == {0 - 2, 0 - 1}

\* an entry written at time t and not read since
PriorEntry(key, t) ==
    [key |-> key, content |-> "t1", lastAccessed |-> t, accessCount |-> 1,
     createdAt |-> t, expiresAt |-> t + ExpirationMs]

\* the object stores an earlier session can have left in the database
PriorStores ==
    UNION {{[k \in keys |-> PriorEntry(k, created[k])] : created \in [keys -> PriorTimes]}
            : keys \in SUBSET {"a.pdf:1", "a.pdf:2"}}

\* a host with a working IndexedDB whose database was filled by an earlier
\* session: this.cachedCount is 0 until initializeCacheCount has counted
InitPersisted ==
    /\ now = 0
    /\ mgr = NoManager
    /\ pre = NoPreload
    /\ view = NoView
    /\ derived = NoKey
    /\ rendering = NoRendering
    /\ IdleMemory
    /\ available = TRUE
    /\ faulty = FALSE
    /\ opening = 0
    /\ opens = 0
    /\ store \in PriorStores
    /\ db = FALSE
    /\ initPromise = "null"
    /\ maxEntries \in 1..MaxEntries
    /\ dbHitCount = 0
    /\ dbMissCount = 0
    /\ cachedCount = 0
    /\ deferredOperations = {}
    /\ processingDeferred = FALSE
    /\ flush = NoFlush
    /\ timers = 0
    /\ txQueue = <<>>
    /\ calls = NoCall
    /\ waiters = <<>>
    /\ microtasks = <<>>
    /\ done = [op |-> "none"]
    /\ lastPut = [key |-> "", n |-> 0]
    /\ budget = MaxPersistedOps

SpecPersisted == InitPersisted /\ [][NextIndexedDb]_vars

\* one transaction of the queue completes
Transaction ==
    \E ok \in Succeeds :
        \/ TxInitCount(ok) \/ TxGet(ok) \/ TxEvictCheck(ok) \/ TxPut(ok) \/ TxEvict(ok)
        \/ TxClear(ok) \/ TxCount(ok) \/ TxCleanup(ok) \/ TxAccess(ok) \/ TxRemove(ok)

\* The event loop: a timer that is due fires, a settled await continues, a
\* request that is ready completes.
SpecFair ==
    /\ InitFair
    /\ [][NextIndexedDb]_vars
    /\ WF_vars(OpenSuccess)
    /\ WF_vars(Continue)
    /\ WF_vars(Transaction)
    /\ WF_vars(TimerFires)
    /\ WF_vars(FlushContinue)

\* --------------------------------------------------- IndexedDbCache claims

\* C4: a get whose request finds an entry with expiresAt <= Date.now() resolves
\* to null and counts one miss, while the entry is still in the object store;
\* whenever a get resolves with a content, it is the content of a stored entry
\* whose expiresAt lies after Date.now().
C4_ExpiredNeverReturned ==
    [][ TxGet(TRUE) =>
          LET k == Head(txQueue).key
          IN /\ done'.value # Null =>
                   /\ k \in DOMAIN store
                   /\ store[k].expiresAt > now
                   /\ done'.value = store[k].content
             /\ (k \in DOMAIN store /\ store[k].expiresAt <= now) =>
                   /\ done'.outcome = "resolved"
                   /\ done'.value = Null
                   /\ dbMissCount' = dbMissCount + 1
                   /\ dbHitCount' = dbHitCount
                   /\ store' = store
      ]_vars

\* a get has resolved to null on an expired entry that is still stored, its
\* removal pending
C4_Witness ==
    /\ done.op = "get"
    /\ done.outcome = "resolved"
    /\ done.value = Null
    /\ done.key \in DOMAIN store
    /\ store[done.key].expiresAt <= now
    /\ <<"remove", done.key>> \in deferredOperations

\* C5: when no call and no transaction is in flight, the object store holds at
\* most maxEntries entries.
C5_CapacityBound ==
    (DOMAIN calls = {} /\ txQueue = <<>>) => StoreCount(store) <= maxEntries

\* C6: a get issued after a set of the same key has completed, with no clear,
\* cleanup or eviction since and the entry not expired, returns the content of
\* that set, whatever deferred operations were pending or flushed in between.
C6_ReadYourWrites ==
    [][ TxGet(TRUE) =>
          LET h == Head(txQueue)
          IN (lastPut.key = h.key /\ lastPut.n = h.after /\ lastPut.expiresAt > now)
                => done'.value = lastPut.content
      ]_vars

\* C7: no public call is ever rejected.
C7_NeverRejects == done.op # "none" => done.outcome = "resolved"

\* C8: on a host without IndexedDB every call settles in its continuation,
\* resolved, with no transaction created and nothing stored; a get resolves to
\* null and increments missCount by exactly one, a set leaves the counters alone.
C8_UnavailableDegrades ==
    [][ (~available /\ Continue) =>
          LET rec == calls[Head(microtasks)]
          IN /\ done'.op = rec.op
             /\ done'.outcome = "resolved"
             /\ Head(microtasks) \notin DOMAIN calls'
             /\ store' = EmptyStore
             /\ txQueue' = <<>>
             /\ dbHitCount' = 0
             /\ rec.op = "get" => done'.value = Null /\ dbMissCount' = dbMissCount + 1
             /\ rec.op = "set" => dbMissCount' = dbMissCount
      ]_vars

\* without IndexedDB, two gets have missed and a set has then resolved
C8_Witness ==
    /\ ~available
    /\ dbMissCount >= 2
    /\ done.op = "set"
    /\ done.outcome = "resolved"
    /\ store = EmptyStore

\* C9: an instance calls indexedDB.open at most once, and every call that waits
\* for the initialization waits on the one open in flight.
C9_SingleFlight ==
    /\ opens <= 1
    /\ opening <= 1
    /\ waiters # <<>> => (initPromise = "pending" /\ opens = 1)
    /\ \A i \in 1..Len(waiters) : calls[waiters[i]].awaits = "promise"

\* two calls wait on the one open request in flight
C9_Witness ==
    /\ Len(waiters) >= 2
    /\ opens = 1
    /\ opening = 1

\* the transactions of a queue that write back what reads deferred
DeferredWrites(q) == SelectSeq(q, LAMBDA x : x.kind \in {"access", "remove"})

\* C10: the step that settles a get leaves the object store as it is and creates
\* no transaction; on a hit (on an expired entry) the access-stat update (the
\* removal) is pending in deferredOperations when the get has resolved, and the
\* transactions that apply them are created by the timer's flush only.
C10_GetNeverWrites ==
    [][ /\ TxGet(TRUE) =>
            LET k == Head(txQueue).key
            IN /\ done'.outcome = "resolved"
               /\ store' = store
               /\ txQueue' = Tail(txQueue)
               /\ done'.value # Null => <<"access", k>> \in deferredOperations'
               /\ (k \in DOMAIN store /\ done'.value = Null)
                     => <<"remove", k>> \in deferredOperations'
        /\ Len(DeferredWrites(txQueue')) > Len(DeferredWrites(txQueue))
              => (TimerFires \/ FlushContinue)
      ]_vars

\* a get has resolved with a content whose access-stat update is still pending
C10_Witness ==
    /\ done.op = "get"
    /\ done.value # Null
    /\ <<"access", done.key>> \in deferredOperations
    /\ timers > 0
    /\ done.key \in DOMAIN store
    /\ store[done.key].accessCount = 1

\* C11: at most one processDeferredOperations call is in flight: the guard flag
\* is set exactly while one flush is between its first await and its finally
\* block, that flush is the only continuation among the microtasks, no timer
\* fires in between, and a flush attempt that finds the flag set (or nothing
\* pending) creates no transaction and leaves deferredOperations as it is.
C11_SingleFlush ==
    /\ [](/\ processingDeferred <=> flush # NoFlush
          /\ flush # NoFlush <=> microtasks = <<FlushId>>
          /\ \A i \in 1..Len(microtasks) : microtasks[i] = FlushId => microtasks = <<FlushId>>)
    /\ [][ TimerFires =>
             /\ ~processingDeferred
             /\ FlushSkipped =>
                   /\ deferredOperations' = deferredOperations
                   /\ txQueue' = txQueue
                   /\ flush' = flush
         ]_vars

\* a flush is in flight, between its access-stat transaction and its removals,
\* while the timer of another flush attempt is pending
C11_Witness ==
    /\ processingDeferred
    /\ flush.pc = "accessed"
    /\ flush.removeKeys # {}
    /\ timers > 0

\* the operations a read can defer
DeferredOps == {"access", "remove"} \X {"a.pdf:1", "a.pdf:2"}

\* the last transaction created is the batch of this kind and holds this key
LastBatchHas(q, kind, key) ==
    /\ q # <<>>
    /\ q[Len(q)].kind = kind
    /\ key \in q[Len(q)].keys

\* C12: under fair scheduling every pending deferred operation is taken by a
\* flush, also when no further call is made; the flush that takes an
\* access-stat update creates the batch transaction holding its key in the same
\* step, the flush that takes a removal creates it in that step or keeps the key
\* for the step after its await, which follows and creates it.
C12_DeferredEventuallyApplied ==
    /\ \A op \in DeferredOps : (op \in deferredOperations) ~> (op \notin deferredOperations)
    /\ (flush # NoFlush) ~> (flush = NoFlush)
    /\ [][ /\ \A op \in deferredOperations \ deferredOperations' :
                /\ Len(txQueue') > Len(txQueue)
                /\ op[1] = "access" => LastBatchHas(txQueue', "access", op[2])
                /\ op[1] = "remove" =>
                      \/ LastBatchHas(txQueue', "remove", op[2])
                      \/ flush'.pc = "accessed" /\ op[2] \in flush'.removeKeys
           /\ (flush.pc = "accessed" /\ flush.removeKeys # {} /\ flush' # flush) =>
                 /\ Len(txQueue') > Len(txQueue)
                 /\ txQueue'[Len(txQueue')] = [kind |-> "remove", keys |-> flush.removeKeys]
         ]_vars

\* deferred operations are pending when the last call of the run has settled:
\* no further read will trigger a flush
C12_Witness ==
    /\ deferredOperations # {}
    /\ budget = 0
    /\ DOMAIN calls = {}
    /\ txQueue = <<>>

\* getStats().hitRate as the fraction <<numerator, denominator>>:
\* totalRequests > 0 ? hitCount / totalRequests : 0
hitRate(hits, misses) ==
    IF hits + misses > 0 THEN <<hits, hits + misses>> ELSE <<0, 1>>

\* TextLayerCache.getStats()
TextLayerCache_getStats ==
    [size |-> Len(cache), maxSize |-> maxSize, hitRate |-> hitRate(hitCount, missCount),
     totalRequests |-> hitCount + missCount, hitCount |-> hitCount, missCount |-> missCount]

\* IndexedDbCache.getStats()
IndexedDbCache_getStats ==
    [size |-> cachedCount, maxSize |-> maxEntries, hitRate |-> hitRate(dbHitCount, dbMissCount),
     totalRequests |-> dbHitCount + dbMissCount, hitCount |-> dbHitCount,
     missCount |-> dbMissCount]

\* the operations of the IndexedDbCache calls that settle in this step
SettledOps == {calls[c].op : c \in DOMAIN calls \ DOMAIN calls'}

\* exactly one of the two counters grows, by one
CountsOneGet(hits, misses, hitsAfter, missesAfter) ==
    \/ hitsAfter = hits + 1 /\ missesAfter = misses
    \/ hitsAfter = hits /\ missesAfter = misses + 1

\* C13: in both stores the step that completes a get adds one to exactly one of
\* hitCount and missCount (also when the get is rejected), the step that
\* completes a clear with success leaves both at zero, and no other step changes
\* them: totalRequests = hitCount + missCount counts the gets completed since
\* creation or the last clear, and hitRate is hitCount / totalRequests or 0.
C13_HitMissAccounting ==
    /\ [](/\ TextLayerCache_getStats.totalRequests = hitCount + missCount
          /\ IndexedDbCache_getStats.totalRequests = dbHitCount + dbMissCount
          /\ IndexedDbCache_getStats.hitRate =
                IF dbHitCount + dbMissCount > 0
                THEN <<dbHitCount, IndexedDbCache_getStats.totalRequests>> ELSE <<0, 1>>)
    /\ [][ /\ IF \E s \in MemSources, p \in Pages : TextLayerCache_get(s, p)
              THEN CountsOneGet(hitCount, missCount, hitCount', missCount')
              ELSE IF TextLayerCache_clear
              THEN hitCount' = 0 /\ missCount' = 0
              ELSE UNCHANGED <<hitCount, missCount>>
           /\ IF "get" \in SettledOps
              THEN CountsOneGet(dbHitCount, dbMissCount, dbHitCount', dbMissCount')
              ELSE IF "clear" \in SettledOps /\ done'.outcome = "resolved"
              THEN dbHitCount' = 0 /\ dbMissCount' = 0
              ELSE UNCHANGED <<dbHitCount, dbMissCount>>
         ]_vars

\* =========================================================== CacheManager
MaxManagerOps == 3    \* switchStrategy and IndexedDbCache calls explored in one run

Strategies == {"memory", "indexeddb", "auto"}

\* the source the manager's cache is driven with
ManagerSource == SrcString("a.pdf")

\* mutant: 'auto' never probes the host
createAutoCache_NoProbe == "indexeddb"

\* CacheManager.createAutoCache: the type of the store it returns
createAutoCache == IF available THEN "indexeddb" ELSE "memory"

\* CacheManager.createCache: the type of the store it returns
createCache(strategy) ==
    CASE strategy = "memory" -> "memory"
      [] strategy = "indexeddb" -> "indexeddb"
      [] strategy = "auto" -> createAutoCache
      [] OTHER -> "memory"

\* CacheManager.getCache(): the store instance, by type and identity
getCache == [type |-> mgr.cacheType, instance |-> mgr.instance]

\* CacheManager.getCurrentStrategy()
getCurrentStrategy == mgr.strategy

\* CacheManager.getActualCacheType()
getActualCacheType == IF mgr.cacheType = "indexeddb" THEN "indexeddb" ELSE "memory"

\* mutant: a new TextLayerCache takes over what the object store holds
NewCacheEntries_Migrated ==
    LET keys == SelectSeq(IdbKeyOrder, LAMBDA k : k \in DOMAIN store)
    IN [i \in 1..Len(keys) |->
          [key |-> keys[i], content |-> store[keys[i]].content,
           lastAccessed |-> now, accessCount |-> 1]]

\* new TextLayerCache(): private cache = new Map()
NewCacheEntries == <<>>

\* new TextLayerCache(this.configuration.memoryMaxSize)
NewTextLayerCache ==
    /\ cache' = NewCacheEntries
    /\ hitCount' = 0
    /\ missCount' = 0
    /\ lastWrite' = [op |-> "none"]
    /\ ret' = "<none>"
    /\ lastUsed' = ""
    /\ UNCHANGED maxSize

\* new IndexedDbCache(this.configuration.indexedDbOptions): the database of
\* that name keeps what earlier instances stored
NewIndexedDbCache ==
    /\ opening' = 0
    /\ opens' = 0
    /\ db' = FALSE
    /\ initPromise' = "null"
    /\ dbHitCount' = 0
    /\ dbMissCount' = 0
    /\ cachedCount' = 0
    /\ deferredOperations' = {}
    /\ processingDeferred' = FALSE
    /\ flush' = NoFlush
    /\ timers' = 0
    /\ txQueue' = <<>>
    /\ calls' = NoCall
    /\ waiters' = <<>>
    /\ microtasks' = <<>>
    /\ done' = [op |-> "none"]
    /\ UNCHANGED <<store, maxEntries, lastPut>>

\* the store in use has no call, request, timer or flush in flight
Quiescent ==
    /\ DOMAIN calls = {}
    /\ txQueue = <<>>
    /\ timers = 0
    /\ microtasks = <<>>
    /\ waiters = <<>>
    /\ opening = 0
    /\ flush = NoFlush

\* mutant: the requested strategy is never taken for the current one
SameStrategy_Never(newStrategy) == FALSE

\* switchStrategy: newStrategy === this.strategy
SameStrategy(newStrategy) == newStrategy = mgr.strategy

\* CacheManager.switchStrategy(newStrategy), called between the calls of the
\* store in use; the store it replaces is dropped.
switchStrategy(newStrategy) ==
    /\ Quiescent
    /\ budget > 0
    /\ budget' = budget - 1
    /\ IF SameStrategy(newStrategy)
       THEN /\ mgr' = [mgr EXCEPT !.requested = newStrategy, !.switches = @ + 1]
            /\ UNCHANGED <<memVars, opening, opens, db, initPromise, dbHitCount,
                           dbMissCount, cachedCount, deferredOperations,
                           processingDeferred, flush, timers, txQueue, calls, waiters,
                           microtasks, done, store, maxEntries, lastPut>>
       ELSE /\ mgr' = [strategy |-> newStrategy, cacheType |-> createCache(newStrategy),
                       instance |-> mgr.instance + 1, requested |-> newStrategy,
                       switches |-> mgr.switches + 1]
            /\ NewTextLayerCache
            /\ NewIndexedDbCache
    /\ UNCHANGED <<now, available, faulty, pre, appVars>>

\* new CacheManager(config), on a host with or without IndexedDB
InitManager ==
    /\ now = 0
    /\ pre = NoPreload
    /\ view = NoView
    /\ derived = NoKey
    /\ rendering = NoRendering
    /\ available \in BOOLEAN
    /\ faulty = FALSE
    /\ budget = MaxManagerOps
    /\ \E s \in Strategies :
          mgr = [strategy |-> s, cacheType |-> createCache(s), instance |-> 1,
                 requested |-> s, switches |-> 0]
    /\ cache = <<>>
    /\ maxSize \in 1..MaxSize
    /\ hitCount = 0
    /\ missCount = 0
    /\ lastWrite = [op |-> "none"]
    /\ ret = "<none>"
    /\ lastUsed = ""
    /\ opening = 0
    /\ opens = 0
    /\ store = EmptyStore
    /\ db = FALSE
    /\ initPromise = "null"
    /\ maxEntries = MaxEntries
    /\ dbHitCount = 0
    /\ dbMissCount = 0
    /\ cachedCount = 0
    /\ deferredOperations = {}
    /\ processingDeferred = FALSE
    /\ flush = NoFlush
    /\ timers = 0
    /\ txQueue = <<>>
    /\ calls = NoCall
    /\ waiters = <<>>
    /\ microtasks = <<>>
    /\ done = [op |-> "none"]
    /\ lastPut = [key |-> "", n |-> 0]

\* the manager's callers use the store getCache() returns
NextManager ==
    \/ \E s \in Strategies : switchStrategy(s)
    \/ \E p \in Pages, c \in Contents :
          mgr.cacheType = "memory" /\ TextLayerCache_set(ManagerSource, p, c)
    \/ \E p \in Pages : mgr.cacheType = "memory" /\ TextLayerCache_get(ManagerSource, p)
    \/ mgr.cacheType = "memory" /\ TextLayerCache_clear
    \/ \E p \in Pages : mgr.cacheType = "indexeddb" /\ Call("get", ManagerSource, p, Null)
    \/ \E p \in Pages, c \in Contents :
          mgr.cacheType = "indexeddb" /\ Call("set", ManagerSource, p, c)
    \/ \E op \in {"clear", "cleanup"} :
          mgr.cacheType = "indexeddb" /\ Call(op, SrcNull, 1, Null)
    \/ OpenSuccess
    \/ Continue
    \/ Transaction
    \/ TimerFires
    \/ FlushContinue
    \/ Tick

SpecManager == InitManager /\ [][NextManager]_vars

\* ----------------------------------------------------- CacheManager claims

\* C14: at construction and after every sequence of switchStrategy calls the
\* manager holds one store whose type follows from the strategy: 'memory' a
\* TextLayerCache, 'indexeddb' an IndexedDbCache, 'auto' an IndexedDbCache where
\* the host has IndexedDB and a TextLayerCache where it has not; and
\* getCurrentStrategy() is the strategy last requested.
C14_StrategyResolution ==
    /\ getCache.type \in {"memory", "indexeddb"}
    /\ getActualCacheType = getCache.type
    /\ getCurrentStrategy = "memory" => getCache.type = "memory"
    /\ getCurrentStrategy = "indexeddb" => getCache.type = "indexeddb"
    /\ getCurrentStrategy = "auto" =>
          getCache.type = (IF available THEN "indexeddb" ELSE "memory")
    /\ getCurrentStrategy = mgr.requested

\* the manager was switched to 'auto' on a host without IndexedDB
C14_Witness ==
    /\ ~available
    /\ mgr.strategy = "auto"
    /\ mgr.instance > 1
    /\ mgr.cacheType = "memory"

\* C15: switchStrategy with the current strategy leaves getCache() the same
\* instance, with the same entries and the same hit/miss counters (and the
\* object store as it is).
C15_SameStrategyNoOp ==
    [][ \A s \in Strategies :
          (switchStrategy(s) /\ s = mgr.strategy) =>
             /\ getCache' = getCache
             /\ getCurrentStrategy' = getCurrentStrategy
             /\ UNCHANGED <<cache, hitCount, missCount, maxSize>>
             /\ UNCHANGED <<store, dbHitCount, dbMissCount, cachedCount, db, initPromise>>
      ]_vars

\* a switchStrategy call changed nothing: the store that held an entry and had
\* counted a hit before the call is still the one in use
C15_Witness ==
    /\ mgr.switches > mgr.instance - 1
    /\ mgr.requested = mgr.strategy
    /\ budget = 0
    /\ \/ mgr.cacheType = "memory" /\ Len(cache) > 0 /\ hitCount > 0
       \/ mgr.cacheType = "indexeddb" /\ dbHitCount > 0 /\ db

MaxPreloadPages == 2  \* longest page list passed to preloadTextLayerCache
DefaultMaxSize == 100 \* maxSize of the textLayerCache singleton

\* A page number argument: the number n, or n + 0.5 when half is set.
PageArg(n, half) == [n |-> n, half |-> half]
PageArgs == {PageArg(0, FALSE), PageArg(1, FALSE), PageArg(2, FALSE),
             PageArg(3, FALSE), PageArg(1, TRUE)}

\* page lists of up to MaxPreloadPages page numbers
PageLists == UNION {[1..n -> PageArgs] : n \in 0..MaxPreloadPages}

\* a PDFDocumentProxy of two pages
PreDoc == [kind |-> "doc", fingerprints |-> <<"fp">>, numPages |-> 2]

\* the sources preloadTextLayerCache is called with
PreSources == {SrcNull, SrcString(""), SrcString("a.pdf"), PreDoc}

\* the page counts of the document getDocument loads
LoadedNumPages == {1, 2}

\* the text content page.getTextContent() resolves to
TextOf(pageNum) == "t" \o ToString(pageNum)

\* String(page), as Array.prototype.join applies it
PageString(page) == ToString(page.n) \o (IF page.half THEN ".5" ELSE "")

\* Array.prototype.join(', ')
RECURSIVE JoinPages(_)
JoinPages(pages) ==
    IF Len(pages) = 0 THEN ""
    ELSE IF Len(pages) = 1 THEN PageString(pages[1])
    ELSE PageString(pages[1]) \o ", " \o JoinPages(Tail(pages))

\* !source
SourceMissing(source) ==
    \/ source.kind = "null"
    \/ source.kind = "string" /\ source.str = ""

\* mutant: only fractions are refused
IsInvalidPage_FractionsOnly(page) == page.half

\* !Number.isInteger(page) || page < 1
IsInvalidPage(page) == page.half \/ page.n < 1

\* The checks at the head of preloadTextLayerCache: the error thrown, if any.
ValidationError(source, isArray, pages) ==
    LET invalidPages == SelectSeq(pages, IsInvalidPage)
    IN IF SourceMissing(source)
       THEN [kind |-> "source",
             message |-> "Source is required for preloading TextLayer cache"]
       ELSE IF ~isArray \/ Len(pages) = 0
       THEN [kind |-> "pages",
             message |-> "Pages array must contain at least one page number"]
       ELSE IF Len(invalidPages) > 0
       THEN [kind |-> "invalid",
             message |-> "Invalid page numbers: " \o JoinPages(invalidPages)
                            \o ". Page numbers must be positive integers."]
       ELSE [kind |-> "none", message |-> ""]

\* mutant: no page is out of range
InRange_Always(page, maxPages) == TRUE

\* page <= maxPages
InRange(page, maxPages) == page <= maxPages

\* pages.filter((page) => page <= maxPages)
ValidPages(pages, maxPages) ==
    LET nums == [i \in 1..Len(pages) |-> pages[i].n]
    IN SelectSeq(nums, LAMBDA n : InRange(n, maxPages))

\* mutant: Promise.all, which settles with the first rejection
AllSettled_FailFast(tasks) ==
    \/ \A i \in 1..Len(tasks) : tasks[i] \in {"fulfilled", "rejected"}
    \/ \E i \in 1..Len(tasks) : tasks[i] = "rejected"

\* Promise.allSettled: every per-page promise is fulfilled or rejected
AllSettled(tasks) == \A i \in 1..Len(tasks) : tasks[i] \in {"fulfilled", "rejected"}

\* the number of results of a status
CountStatus(tasks, status) == Cardinality({i \in 1..Len(tasks) : tasks[i] = status})

\* mutant: the pages skipped as cached are not counted
CachedTotal_LoadedOnly(successful, valid, toLoad, skipCached) == successful

\* cached = successful + (skipCached ? validPages.length - pagesToLoad.length : 0)
CachedTotal(successful, valid, toLoad, skipCached) ==
    successful + (IF skipCached THEN valid - toLoad ELSE 0)

\* the locals of a preloadTextLayerCache call that passed validation
NewPreload(source, isArray, pages, skipCached) ==
    [pc |-> "loading", source |-> source, isArray |-> isArray, pages |-> pages,
     skipCached |-> skipCached, all |-> FALSE, load |-> "none", timer |-> "none",
     acquired |-> FALSE, numPages |-> 0, validPages |-> <<>>, probe |-> 1,
     uncached |-> <<>>, pagesToLoad |-> <<>>, tasks |-> <<>>, extracted |-> {},
     written |-> {}, cached |-> 0, failed |-> 0, errors |-> <<>>,
     onProgress |-> "none", completed |-> 0, progress |-> <<>>,
     result |-> [success |-> FALSE], error |-> [kind |-> "none", message |-> ""]]

\* From `if (pagesToLoad.length === 0)` on: the early result, or the per-page
\* promises are created and every doc.getPage is called.
StartLoading(rec, pagesToLoad) ==
    IF Len(pagesToLoad) = 0
    THEN [rec EXCEPT !.pc = "resolved", !.pagesToLoad = pagesToLoad,
                     !.result = [success |-> TRUE, cached |-> Len(rec.validPages),
                                 failed |-> 0, totalPages |-> Len(rec.pages),
                                 hasErrors |-> FALSE, errors |-> <<>>]]
    ELSE [rec EXCEPT !.pc = "extracting", !.pagesToLoad = pagesToLoad,
                     !.tasks = [i \in 1..Len(pagesToLoad) |-> "extract"],
                     !.extracted = {pagesToLoad[i] : i \in 1..Len(pagesToLoad)}]

\* From `const maxPages = doc.numPages` down to the first await.
WithDocument(rec, numPages) ==
    LET validPages == ValidPages(rec.pages, numPages)
        known == [rec EXCEPT !.numPages = numPages, !.validPages = validPages]
    IN IF rec.skipCached /\ Len(validPages) > 0
       THEN [known EXCEPT !.pc = "probing"]
       ELSE StartLoading(known, validPages)

\* the error preloadTextLayerCacheAll throws from its catch
AllError(error) ==
    [kind |-> error.kind, message |-> "Failed to preload all pages: " \o error.message]

\* The call rejects: with the error preloadTextLayerCache throws, wrapped by
\* the catch of preloadTextLayerCacheAll when the call came through it.
Reject(rec, error) ==
    [rec EXCEPT !.pc = "rejected", !.error = IF rec.all THEN AllError(error) ELSE error]

\* getDocument(source) is called and raced against setTimeout(reject, timeout)
Acquire(rec) ==
    [rec EXCEPT !.pc = "loading", !.acquired = TRUE, !.load = "pending",
                !.timer = "armed"]

\* The body of preloadTextLayerCache for the arguments of rec.
Preload(rec) ==
    LET error == ValidationError(rec.source, rec.isArray, rec.pages)
    IN IF error.kind # "none"
       THEN Reject(rec, error)
       ELSE IF rec.source.kind = "doc"
       THEN WithDocument(rec, rec.source.numPages)
       ELSE Acquire(rec)

\* preloadTextLayerCache(source, pages, {skipCached}) is called: validation,
\* then the document is taken from the source or its loading is started.
PreloadCall(source, isArray, pages, skipCached) ==
    /\ pre.pc = "idle"
    /\ pre' = Preload(NewPreload(source, isArray, pages, skipCached))
    /\ UNCHANGED <<now, memVars, idbVars, mgr, appVars>>

\* the error preloadTextLayerCache throws from its catch
LoadError(cause) ==
    [kind |-> cause, message |-> "Failed to load PDF document: " \o
        (IF cause = "timeout" THEN "Document loading timeout" ELSE "load failed")]

\* mutant: the race is never taken as settled
RaceSettled_Never == FALSE

\* Promise.race has settled: the call no longer awaits documentPromise
RaceSettled == pre.pc # "loading"

\* loadingTask.promise settles, before or after the race has settled
PreloadDocumentSettles(ok, numPages) ==
    /\ pre.pc \notin {"idle", "loadingAll"}
    /\ pre.load = "pending"
    /\ pre.numPages \in {0, numPages}
    /\ LET settled == [pre EXCEPT !.load = "settled"]
       IN pre' = IF RaceSettled THEN settled
                 ELSE IF ok THEN WithDocument(settled, numPages)
                 ELSE Reject(settled, LoadError("load"))
    /\ UNCHANGED <<now, memVars, idbVars, mgr, appVars>>

\* the setTimeout callback of the timeout wrapper runs: reject(new Error(...))
PreloadTimeout ==
    /\ pre.pc # "idle"
    /\ pre.timer = "armed"
    /\ LET fired == [pre EXCEPT !.timer = "fired"]
       IN pre' = IF RaceSettled THEN fired
                 ELSE Reject(fired, LoadError("timeout"))
    /\ UNCHANGED <<now, memVars, idbVars, mgr, appVars>>

\* the page numbers 1..numPages: Array.from({ length: doc.numPages }, ...)
AllPages(numPages) == [i \in 1..numPages |-> PageArg(i, FALSE)]

\* preloadTextLayerCacheAll(source, {skipCached}) is called: down to
\* `await getDocument(source).promise`, or to the preloadTextLayerCache call
\* when the source is a document.
PreloadAllCall(source, skipCached) ==
    /\ pre.pc = "idle"
    /\ LET rec == [NewPreload(source, TRUE, <<>>, skipCached) EXCEPT !.all = TRUE]
       IN pre' = IF SourceMissing(source)
                 THEN [rec EXCEPT !.pc = "rejected",
                         !.error = [kind |-> "source",
                                    message |-> "Source is required for preloading TextLayer cache"]]
                 ELSE IF source.kind = "doc"
                 THEN Preload([rec EXCEPT !.pages = AllPages(source.numPages)])
                 ELSE [rec EXCEPT !.pc = "loadingAll", !.acquired = TRUE]
    /\ UNCHANGED <<now, memVars, idbVars, mgr, appVars>>

\* getDocument(source).promise of preloadTextLayerCacheAll settles
PreloadAllDocumentSettles(ok, numPages) ==
    /\ pre.pc = "loadingAll"
    /\ pre' = IF ok
              THEN Preload([pre EXCEPT !.pages = AllPages(numPages),
                                       !.numPages = numPages])
              ELSE Reject(pre, [kind |-> "load", message |-> "load failed"])
    /\ UNCHANGED <<now, memVars, idbVars, mgr, appVars>>

\* mutant: a page found in the cache is loaded all the same
Uncached_All(hit, uncachedPages, pageNum) == Append(uncachedPages, pageNum)

\* if (!cachedContent) uncachedPages.push(pageNum)
Uncached(hit, uncachedPages, pageNum) ==
    IF hit THEN uncachedPages ELSE Append(uncachedPages, pageNum)

\* one round of the skipCached loop: await textLayerCache.get(source, pageNum)
PreloadProbe ==
    /\ pre.pc = "probing"
    /\ LET pageNum == pre.validPages[pre.probe]
           key == generateCacheKey(pre.source, pageNum)
           hit == MapHas(cache, key)
           uncached == Uncached(hit, pre.uncached, pageNum)
           next == [pre EXCEPT !.probe = @ + 1, !.uncached = uncached,
                               !.cached = IF hit THEN @ + 1 ELSE @]
       IN /\ IF hit
             THEN /\ cache' = MapSet(cache, key,
                                [MapGet(cache, key) EXCEPT !.lastAccessed = now,
                                                           !.accessCount = @ + 1])
                  /\ hitCount' = hitCount + 1
                  /\ ret' = MapGet(cache, key).content
                  /\ lastUsed' = key
                  /\ UNCHANGED missCount
             ELSE /\ missCount' = missCount + 1
                  /\ ret' = Null
                  /\ UNCHANGED <<cache, hitCount, lastUsed>>
          /\ pre' = IF pre.probe = Len(pre.validPages)
                    THEN StartLoading(next, uncached)
                    ELSE next
    /\ UNCHANGED <<now, maxSize, lastWrite, idbVars, mgr, appVars>>

\* `if (onProgress) onProgress(completed, pagesToLoad.length)` in the task
\* of the i-th page to load: the calls made so far, this one included
Report(rec, i, completed) ==
    IF rec.onProgress = "none" THEN rec.progress
    ELSE Append(rec.progress, [task |-> i, loaded |-> completed,
                               total |-> Len(rec.pagesToLoad)])

\* the catch block of the task of the i-th page: it counts the page as
\* completed and failed, reports progress and rejects the task
TaskCatch(rec, i) ==
    [rec EXCEPT !.tasks[i] = "rejected", !.failed = @ + 1,
                !.errors = Append(@, rec.pagesToLoad[i]),
                !.completed = @ + 1,
                !.progress = Report(rec, i, rec.completed + 1)]

\* the try block of the task of the i-th page after the cache write: it counts
\* the page as completed and cached and reports progress; an onProgress that
\* throws takes the task to its catch block
TaskDone(rec, i) ==
    LET reported == [rec EXCEPT !.cached = @ + 1, !.completed = @ + 1,
                                !.written = @ \cup {rec.pagesToLoad[i]},
                                !.progress = Report(rec, i, rec.completed + 1)]
    IN IF rec.onProgress = "throws" THEN TaskCatch(reported, i)
       ELSE [reported EXCEPT !.tasks[i] = "fulfilled"]

\* doc.getPage / page.getTextContent of the i-th page to load settle
PreloadExtract(i, ok) ==
    /\ pre.pc = "extracting"
    /\ i \in 1..Len(pre.tasks)
    /\ pre.tasks[i] = "extract"
    /\ pre' = IF ok
              THEN [pre EXCEPT !.tasks[i] = "store"]
              ELSE TaskCatch(pre, i)
    /\ UNCHANGED <<now, memVars, idbVars, mgr, appVars>>

\* await textLayerCache.set(source, pageNum, textContent) of the i-th page
PreloadStore(i) ==
    /\ pre.pc = "extracting"
    /\ i \in 1..Len(pre.tasks)
    /\ pre.tasks[i] = "store"
    /\ LET pageNum == pre.pagesToLoad[i]
           key == generateCacheKey(pre.source, pageNum)
           kept == IF NeedsEviction(cache, key) THEN evictLRU(cache) ELSE cache
       IN /\ cache' = MapSet(kept, key,
                        [key |-> key, content |-> TextOf(pageNum),
                         lastAccessed |-> now, accessCount |-> 1])
          /\ lastWrite' = [op |-> "set", source |-> pre.source, page |-> pageNum,
                           content |-> TextOf(pageNum),
                           evicted |-> IF NeedsEviction(cache, key)
                                       THEN OldestKey(cache) ELSE ""]
          /\ lastUsed' = key
          /\ pre' = TaskDone(pre, i)
    /\ UNCHANGED <<now, maxSize, hitCount, missCount, ret, idbVars, mgr, appVars>>

\* Promise.allSettled resolves: the counts are taken from its results
PreloadSettles ==
    /\ pre.pc = "extracting"
    /\ AllSettled(pre.tasks)
    /\ LET successful == CountStatus(pre.tasks, "fulfilled")
           failed == CountStatus(pre.tasks, "rejected")
       IN pre' = [pre EXCEPT
                    !.pc = "resolved",
                    !.result = [success |-> failed = 0,
                                cached |-> CachedTotal(successful, Len(pre.validPages),
                                                       Len(pre.pagesToLoad), pre.skipCached),
                                failed |-> failed,
                                totalPages |-> Len(pre.pages),
                                hasErrors |-> Len(pre.errors) > 0,
                                errors |-> pre.errors]]
    /\ UNCHANGED <<now, memVars, idbVars, mgr, appVars>>

\* the textLayerCache singleton, before anything is cached
InitPreload ==
    /\ now = 0
    /\ IdleIndexedDb
    /\ mgr = NoManager
    /\ pre = NoPreload
    /\ view = NoView
    /\ derived = NoKey
    /\ rendering = NoRendering
    /\ cache = <<>>
    /\ maxSize = DefaultMaxSize
    /\ hitCount = 0
    /\ missCount = 0
    /\ lastWrite = [op |-> "none"]
    /\ ret = "<none>"
    /\ lastUsed = ""

\* pages are cached by earlier renderings, then one preload call runs
NextPreload ==
    \/ \E s \in {SrcString("a.pdf"), PreDoc}, p \in Pages :
          pre.pc = "idle" /\ TextLayerCache_set(s, p, TextOf(p))
    \/ \E s \in PreSources, isArray \in BOOLEAN, pages \in PageLists, skip \in BOOLEAN :
          PreloadCall(s, isArray, pages, skip)
    \/ \E ok \in BOOLEAN, n \in LoadedNumPages : PreloadDocumentSettles(ok, n)
    \/ PreloadTimeout
    \/ \E s \in PreSources, skip \in BOOLEAN : PreloadAllCall(s, skip)
    \/ \E ok \in BOOLEAN, n \in LoadedNumPages : PreloadAllDocumentSettles(ok, n)
    \/ PreloadProbe
    \/ \E i \in 1..MaxPreloadPages, ok \in BOOLEAN : PreloadExtract(i, ok)
    \/ \E i \in 1..MaxPreloadPages : PreloadStore(i)
    \/ PreloadSettles

SpecPreload == InitPreload /\ [][NextPreload]_vars

\* the onProgress callbacks a caller passes: one that returns, one that throws
Callbacks == {"returns", "throws"}

\* preloadTextLayerCache(source, pages, {skipCached, onProgress}) is called
PreloadCallWithProgress(source, pages, skipCached, onProgress) ==
    /\ pre.pc = "idle"
    /\ pre' = Preload([NewPreload(source, TRUE, pages, skipCached)
                         EXCEPT !.onProgress = onProgress])
    /\ UNCHANGED <<now, memVars, idbVars, mgr, appVars>>

NextProgress ==
    \/ \E s \in {SrcString("a.pdf"), PreDoc}, p \in Pages :
          pre.pc = "idle" /\ TextLayerCache_set(s, p, TextOf(p))
    \/ \E s \in {SrcString("a.pdf"), PreDoc}, pages \in PageLists, skip \in BOOLEAN,
          cb \in Callbacks : PreloadCallWithProgress(s, pages, skip, cb)
    \/ \E ok \in BOOLEAN, n \in LoadedNumPages : PreloadDocumentSettles(ok, n)
    \/ PreloadTimeout
    \/ PreloadProbe
    \/ \E i \in 1..MaxPreloadPages, ok \in BOOLEAN : PreloadExtract(i, ok)
    \/ \E i \in 1..MaxPreloadPages : PreloadStore(i)
    \/ PreloadSettles

SpecProgress == InitPreload /\ [][NextProgress]_vars

\* a PDFDocumentProxy with one page more than the textLayerCache singleton holds
BigDoc == [kind |-> "doc", fingerprints |-> <<"big">>, numPages |-> DefaultMaxSize + 1]

\* the first page task that has not settled: pdf.js serves the pages in order
FirstUnsettled ==
    CHOOSE i \in 1..Len(pre.tasks) :
        /\ pre.tasks[i] \in {"extract", "store"}
        /\ \A j \in 1..(i - 1) : pre.tasks[j] \in {"fulfilled", "rejected"}

HasUnsettled ==
    /\ pre.pc = "extracting"
    /\ \E i \in 1..Len(pre.tasks) : pre.tasks[i] \in {"extract", "store"}

\* preloading every page of a two-page or of the large document into the
\* singleton, the page fetches settling in page order and at most one failing
NextCapacity ==
    \/ \E s \in {PreDoc, BigDoc}, skip \in BOOLEAN : PreloadAllCall(s, skip)
    \/ PreloadProbe
    \/ HasUnsettled /\ PreloadExtract(FirstUnsettled, TRUE)
    \/ HasUnsettled /\ pre.failed = 0 /\ PreloadExtract(FirstUnsettled, FALSE)
    \/ HasUnsettled /\ PreloadStore(FirstUnsettled)
    \/ PreloadSettles

SpecCapacity == InitPreload /\ [][NextCapacity]_vars

\* The event loop runs the callbacks that are due and the continuations that
\* are ready; whether and when a document loads or a page is extracted is up
\* to pdf.js.
SpecPreloadFair ==
    /\ SpecPreload
    /\ WF_vars(PreloadTimeout)
    /\ WF_vars(PreloadProbe)
    /\ WF_vars(\E i \in 1..MaxPreloadPages : PreloadStore(i))
    /\ WF_vars(PreloadSettles)

\* -------------------------------------------- preloadTextLayerCache claims

\* the page numbers of a list that are not positive integers, in list order
Offending(pages) == SelectSeq(pages, LAMBDA page : page.half \/ page.n < 1)

\* C17: a preloadTextLayerCache call whose source is null or empty, whose pages argument is not an
\* array or is empty, or that lists a page number that is not a positive
\* integer is rejected in the step of the call: no document is acquired, no page
\* extracted, the cache and its counters are as before; where source and list
\* are present the message lists the offending page numbers.
C17_ValidationFailsFast ==
    [][ (pre.pc = "idle" /\ pre'.pc # "idle" /\ ~pre'.all) =>
          LET source == pre'.source
              pages == pre'.pages
              malformed == \/ source.kind = "null"
                           \/ source.kind = "string" /\ source.str = ""
                           \/ ~pre'.isArray
                           \/ Len(pages) = 0
                           \/ Len(Offending(pages)) > 0
          IN /\ malformed <=> pre'.pc = "rejected"
             /\ malformed =>
                   /\ ~pre'.acquired
                   /\ pre'.extracted = {}
                   /\ pre'.written = {}
                   /\ pre'.tasks = <<>>
                   /\ UNCHANGED <<cache, hitCount, missCount>>
             /\ (~SourceMissing(source) /\ pre'.isArray /\ Len(Offending(pages)) > 0) =>
                   pre'.error.message =
                       "Invalid page numbers: " \o JoinPages(Offending(pages))
                          \o ". Page numbers must be positive integers."
      ]_vars

\* a call listing the pages 0 and 1.5 was rejected naming both, with a page in
\* the cache
C17_Witness ==
    /\ pre.pc = "rejected"
    /\ pre.error.message =
          "Invalid page numbers: 0, 1.5. Page numbers must be positive integers."
    /\ Len(cache) > 0
    /\ hitCount + missCount = 0

\* the requested page numbers that lie within the document
RequestedInRange == {i \in 1..Len(pre.pages) : pre.pages[i].n <= pre.numPages}

C19_AllSettle ==
    /\ [](pre.pc = "rejected" => pre.tasks = <<>>)
    /\ [](pre.pc = "resolved" =>
            \A i \in 1..Len(pre.tasks) :
               \/ /\ pre.tasks[i] = "fulfilled"
                  /\ pre.pagesToLoad[i] \in pre.written
                  /\ MapHas(cache, generateCacheKey(pre.source, pre.pagesToLoad[i]))
                  /\ MapGet(cache, generateCacheKey(pre.source, pre.pagesToLoad[i])).content
                        = TextOf(pre.pagesToLoad[i])
               \/ /\ pre.tasks[i] = "rejected"
                  /\ \E j \in 1..Len(pre.errors) : pre.errors[j] = pre.pagesToLoad[i])
    /\ [][ \A i \in 1..MaxPreloadPages :
              PreloadExtract(i, FALSE) =>
                 /\ pre'.pc = "extracting"
                 /\ \A j \in 1..Len(pre.tasks) : j # i => pre'.tasks[j] = pre.tasks[j]
         ]_vars

\* a preload resolved after its first page failed and its second page was
\* extracted and written to the cache
C19_Witness ==
    /\ pre.pc = "resolved"
    /\ pre.tasks = <<"rejected", "fulfilled">>
    /\ pre.pagesToLoad = <<1, 2>>
    /\ MapHas(cache, generateCacheKey(pre.source, 2))
    /\ ~MapHas(cache, generateCacheKey(pre.source, 1))

\* C20: no page number above the document's page count is extracted, written
\* to the cache or listed in errors, and it does not make success false; every
\* requested page within the document is extracted, or was found in the cache
\* when skipCached is set.
C20_ClampsToDocument ==
    pre.pc # "idle" =>
       /\ \A n \in pre.extracted \cup pre.written : n <= pre.numPages
       /\ \A j \in 1..Len(pre.errors) : pre.errors[j] <= pre.numPages
       /\ pre.pc = "resolved" =>
             /\ \A i \in RequestedInRange :
                   \/ pre.pages[i].n \in pre.extracted
                   \/ /\ pre.skipCached
                      /\ MapHas(cache, generateCacheKey(pre.source, pre.pages[i].n))
             /\ (\A i \in 1..Len(pre.tasks) : pre.tasks[i] = "fulfilled")
                   => pre.result.success

\* pages 1 and 3 were requested of a document of two pages: page 1 alone was
\* extracted and written, and the preload succeeded
C20_Witness ==
    /\ pre.pc = "resolved"
    /\ pre.numPages = 2
    /\ pre.pages = <<PageArg(1, FALSE), PageArg(3, FALSE)>>
    /\ pre.extracted = {1}
    /\ pre.written = {1}
    /\ pre.result.success
    /\ pre.result.cached = 1
    /\ pre.result.totalPages = 2
    /\ ~pre.result.hasErrors

\* the pages of a list, as a set
PageSet(pages) == {pages[i] : i \in 1..Len(pages)}

\* C21: with skipCached, the round of the probe loop that finds its page in the
\* cache leaves the entry's content and the list of pages to load as they are,
\* and the round that misses adds the page to that list; the pages extracted
\* and written are exactly (at most) the in-range pages whose probe missed; a
\* preload whose probes all hit resolves with success and no extraction; and
\* the cached count of a result without failures is the number of in-range
\* pages requested, found or newly written.
C21_SkipCached ==
    /\ [][ PreloadProbe =>
             LET pageNum == pre.validPages[pre.probe]
                 key == generateCacheKey(pre.source, pageNum)
             IN IF MapHas(cache, key)
                THEN /\ pre'.uncached = pre.uncached
                     /\ MapGet(cache', key).content = MapGet(cache, key).content
                     /\ pageNum \notin pre'.extracted
                ELSE pre'.uncached = Append(pre.uncached, pageNum)
         ]_vars
    /\ []((pre.pc \in {"extracting", "resolved"} /\ pre.skipCached) =>
            /\ pre.extracted = PageSet(pre.uncached)
            /\ pre.written \subseteq PageSet(pre.uncached)
            /\ PageSet(pre.uncached) \subseteq PageSet(pre.validPages)
            /\ \A n \in PageSet(pre.validPages) \ PageSet(pre.uncached) :
                  /\ n \notin pre.extracted \cup pre.written
                  /\ MapHas(cache, generateCacheKey(pre.source, n)))
    /\ []((pre.pc = "resolved" /\ pre.skipCached) =>
            /\ (pre.uncached = <<>>) =>
                  /\ pre.result.success
                  /\ pre.tasks = <<>>
                  /\ pre.extracted = {}
                  /\ pre.result.cached = Len(pre.validPages)
            /\ pre.result.failed = 0 => pre.result.cached = Len(pre.validPages))

\* pages 1 and 2 were requested with page 1 in the cache: page 2 alone was
\* extracted and written, and the result counts both as cached
C21_Witness ==
    /\ pre.pc = "resolved"
    /\ pre.skipCached
    /\ pre.validPages = <<1, 2>>
    /\ pre.uncached = <<2>>
    /\ pre.extracted = {2}
    /\ pre.written = {2}
    /\ hitCount = 1
    /\ pre.result.success
    /\ pre.result.cached = 2

\* C22: when the timeout fires during the acquisition of the document, the
\* call rejects with the timeout error; a call rejected by the timeout stays
\* rejected, with no probe, no extraction and no write of its own, and the
\* cache as it was, also at the step in which the acquisition completes.
C22_TimeoutRejects ==
    /\ [][(PreloadTimeout /\ pre.pc = "loading") =>
             /\ pre'.pc = "rejected"
             /\ pre'.error.kind = "timeout"
             /\ pre'.error.message = (IF pre.all THEN "Failed to preload all pages: " ELSE "")
                    \o "Failed to load PDF document: Document loading timeout"
          ]_vars
    /\ []((pre.pc = "rejected" /\ pre.error.kind = "timeout") =>
             /\ pre.probe = 1 /\ pre.validPages = <<>> /\ pre.uncached = <<>>
             /\ pre.tasks = <<>> /\ pre.extracted = {} /\ pre.written = {})
    /\ [][(pre.pc = "rejected" /\ pre.error.kind = "timeout" /\ pre'.pc # "idle") =>
             /\ pre'.pc = "rejected" /\ pre'.error = pre.error
             /\ UNCHANGED <<cache, hitCount, missCount>>
          ]_vars

\* the timeout rejected the call and the document was loaded afterwards
C22_Witness ==
    /\ pre.pc = "rejected" /\ pre.error.kind = "timeout"
    /\ pre.timer = "fired" /\ pre.load = "settled"
    /\ ~pre.all

\* C23: a preloadTextLayerCacheAll call that waits for the document of a
\* source that is not a document handle does not wait forever: it is
\* eventually rejected or goes on; and when the document is loaded, the pages
\* handed to preloadTextLayerCache are exactly 1..numPages.
C23_AllBounded ==
    /\ (pre.pc = "loadingAll") ~> (pre.pc # "loadingAll")
    /\ [][\A n \in LoadedNumPages :
             PreloadAllDocumentSettles(TRUE, n) =>
                 /\ Len(pre'.pages) = n
                 /\ \A i \in 1..n : pre'.pages[i] = PageArg(i, FALSE)
         ]_vars

\* ------------------------------------------------------------ key derivation
\* The key derivations of the two stores, applied to every source shape.
MaxBytes == 4

\* the byte values of the buffers
ByteValues == {0, 1}

\* the contents of the ArrayBuffers
ByteSeqs == UNION {[1..n -> ByteValues] : n \in 0..MaxBytes}

\* A document handle: `document` is the document it was loaded from, `props`
\* the fingerprint properties it carries.
DocHandle(document, props) == [kind |-> "doc", numPages |-> 2, document |-> document] @@ props

DocHandles ==
    { DocHandle("d1", [fingerprints |-> <<"fp">>]),
      DocHandle("d2", [fingerprints |-> <<"fp2">>]),
      DocHandle("d3", [fingerprints |-> <<>>]),
      DocHandle("d4", [fingerprints |-> <<"">>]),
      DocHandle("d5", [fingerprint |-> "fp5"]),
      DocHandle("d6", [pdfInfo |-> <<"fp6">>]),
      DocHandle("d7", [kind |-> "doc"]),
      DocHandle("d8", [kind |-> "doc"]) }

KeySources ==
    {SrcNull}
    \cup {SrcString(s) : s \in {"a.pdf", "b.pdf", "null", "doc:fp", "doc:unknown"}}
    \cup {SrcBuffer(b) : b \in ByteSeqs}
    \cup {SrcBytes(b, b) : b \in ByteSeqs}
    \cup {SrcBytes(b, b \o <<1>>) : b \in ByteSeqs}
    \cup DocHandles
    \cup {SrcObject(<<123, 125>>), SrcObject(<<91, 93>>), SrcCircular}

\* the outcome of a key derivation: the key returned, or the exception
Derive(op, source, pageNumber, throws, key) ==
    [op |-> op, source |-> source, page |-> pageNumber, threw |-> throws,
     key |-> IF throws THEN "" ELSE key]

\* TextLayerCache.generateCacheKey(source, pageNumber) is called and settles
DeriveKey(source, pageNumber) ==
    /\ derived' = Derive("generateCacheKey", source, pageNumber,
                         generateCacheKey_Throws(source),
                         generateCacheKey(source, pageNumber))
    /\ UNCHANGED <<now, memVars, idbVars, mgr, pre, view, rendering>>

\* IndexedDbCache.generateCacheKeySync(source, pageNumber) is called and returns
DeriveKeySync(source, pageNumber) ==
    /\ derived' = Derive("generateCacheKeySync", source, pageNumber,
                         generateCacheKeySync_Throws(source),
                         generateCacheKeySync(source, pageNumber))
    /\ UNCHANGED <<now, memVars, idbVars, mgr, pre, view, rendering>>

InitKeys == InitPreload

NextKeys ==
    \/ \E s \in KeySources, p \in Pages : DeriveKey(s, p)
    \/ \E s \in KeySources, p \in Pages : DeriveKeySync(s, p)

SpecKeys == InitKeys /\ [][NextKeys]_vars

\* the key the derivation `op` gives for (source, pageNumber)
KeyOf(op, source, pageNumber) ==
    IF op = "generateCacheKey" THEN generateCacheKey(source, pageNumber)
    ELSE generateCacheKeySync(source, pageNumber)

\* the derivation `op` throws on source
KeyThrows(op, source) ==
    IF op = "generateCacheKey" THEN generateCacheKey_Throws(source)
    ELSE generateCacheKeySync_Throws(source)

\* C24: no key derivation of either store, for any source shape and any page
\* number, ends in an exception.
C24_KeyNeverThrows == derived.op # "none" => ~derived.threw

\* C25: the key derived for a page of a source differs from the key the same
\* derivation gives for every other page of that source.
C25_PagesDistinct ==
    (derived.op # "none" /\ ~derived.threw) =>
        \A p \in Pages \ {derived.page} :
            KeyOf(derived.op, derived.source, p) # derived.key

\* keys were derived for a page of a document handle, by either store
C25_Witness ==
    /\ derived.op = "generateCacheKeySync" /\ ~derived.threw
    /\ derived.source.kind = "doc" /\ derived.page = 2
    /\ derived.key = "doc:fp:2"

\* the two sources denote the same document
SameDocument(s1, s2) ==
    /\ s1.kind = s2.kind
    /\ CASE s1.kind = "null" -> TRUE
         [] s1.kind = "string" -> s1.str = s2.str
         [] s1.kind = "buffer" -> s1.bytes = s2.bytes
         [] s1.kind = "bytes" -> s1.bytes = s2.bytes
         [] s1.kind = "doc" -> s1.document = s2.document
         [] s1.kind = "object" -> s1 = s2

\* the source shapes of C26
KeyShapes == {s \in KeySources : s.kind \in {"null", "string", "doc"}}

\* C26: among null, strings and document handles, a source that denotes
\* another document than the one a key was derived for gets another key for
\* the same page.
C26_SourcesDistinct ==
    (derived.op # "none" /\ derived.source \in KeyShapes) =>
        \A s \in KeyShapes :
            ~SameDocument(s, derived.source) =>
                KeyOf(derived.op, s, derived.page) # derived.key

\* ------------------------------------------------------------- VuePdfEmbed
\* The component after a standalone preload: its cacheManager computed makes a
\* new CacheManager, whose cache (strategy 'memory', the default of the props)
\* is a new TextLayerCache of maxTextLayerCacheSize entries; renderPageTextLayer
\* reads and writes that cache under the key of doc.value.

\* the sources the component and the preload are given
ViewSources == {SrcString("a.pdf"), PreDoc}

\* doc.value: the source itself when it is a document handle, else the handle
\* of the document loaded from it
DocValue(source, numPages) ==
    IF source.kind = "doc" THEN source
    ELSE [kind |-> "doc", fingerprints |-> <<"fp">>, numPages |-> numPages]

\* the page counts the document of the component can have: the one the preload
\* found, when it loaded the document
ViewNumPages == IF pre.pc # "idle" /\ pre.numPages > 0 THEN {pre.numPages} ELSE LoadedNumPages

\* The component is set up with props source and enableTextLayerCache, and its
\* document is loaded.
Mount(source, enableTextLayerCache, numPages) ==
    /\ view.pc = "unmounted"
    /\ pre.pc \in {"idle", "resolved", "rejected"}
    /\ numPages \in ViewNumPages
    /\ view' = [pc |-> "mounted", source |-> source,
                enabled |-> enableTextLayerCache,
                doc |-> DocValue(source, numPages),
                store |-> <<>>, hitCount |-> 0, missCount |-> 0,
                rendered |-> {}, hits |-> {}, extracted |-> {}]
    /\ UNCHANGED <<now, memVars, idbVars, mgr, pre, derived, rendering>>

\* renderPageTextLayer(page): cache.value.get(doc.value, page.pageNumber); on a
\* miss page.getTextContent() and cache.value.set(doc.value, ...).
renderPageTextLayer(pageNumber) ==
    /\ view.pc = "mounted"
    /\ pageNumber \in 1..view.doc.numPages
    /\ pageNumber \notin view.rendered
    /\ LET key == generateCacheKey(view.doc, pageNumber)
           cacheHit == view.enabled /\ MapHas(view.store, key)
           touched == [MapGet(view.store, key) EXCEPT !.lastAccessed = now,
                                                      !.accessCount = @ + 1]
           kept == IF Len(view.store) >= DefaultMaxSize
                   THEN evictLRU(view.store) ELSE view.store
           entry == [key |-> key, content |-> TextOf(pageNumber),
                     lastAccessed |-> now, accessCount |-> 1]
       IN view' = [view EXCEPT
                     !.rendered = @ \cup {pageNumber},
                     !.hits = IF cacheHit THEN @ \cup {pageNumber} ELSE @,
                     !.extracted = IF cacheHit THEN @ ELSE @ \cup {pageNumber},
                     !.hitCount = IF cacheHit THEN @ + 1 ELSE @,
                     !.missCount = IF view.enabled /\ ~cacheHit THEN @ + 1 ELSE @,
                     !.store = IF ~view.enabled THEN @
                               ELSE IF cacheHit THEN MapSet(@, key, touched)
                               ELSE MapSet(kept, key, entry)]
    /\ UNCHANGED <<now, memVars, idbVars, mgr, pre, derived, rendering>>

\* the component is re-rendered: every page is rendered again
Rerender ==
    /\ view.pc = "mounted"
    /\ view.rendered = 1..view.doc.numPages
    /\ view.hits = {}
    /\ view' = [view EXCEPT !.rendered = {}, !.extracted = {}]
    /\ UNCHANGED <<now, memVars, idbVars, mgr, pre, derived, rendering>>

NextComponent ==
    \/ \E s \in ViewSources, n \in LoadedNumPages, skip \in BOOLEAN :
          PreloadCall(s, TRUE, AllPages(n), skip)
    \/ \E ok \in BOOLEAN, n \in LoadedNumPages : PreloadDocumentSettles(ok, n)
    \/ PreloadTimeout
    \/ PreloadProbe
    \/ \E i \in 1..MaxPreloadPages, ok \in BOOLEAN : PreloadExtract(i, ok)
    \/ \E i \in 1..MaxPreloadPages : PreloadStore(i)
    \/ PreloadSettles
    \/ \E s \in ViewSources, enabled \in BOOLEAN, n \in LoadedNumPages : Mount(s, enabled, n)
    \/ \E p \in Pages : renderPageTextLayer(p)
    \/ Rerender

SpecComponent == InitPreload /\ [][NextComponent]_vars

\* C27: when the component, with text-layer caching enabled, renders a page
\* that a completed preloadTextLayerCache call of the same source has written
\* to the cache, the render is a cache hit and extracts no text.
C27_PreloadedPageHits ==
    [][\A p \in Pages :
          (/\ renderPageTextLayer(p)
           /\ view.enabled
           /\ pre.pc = "resolved"
           /\ pre.source = view.source
           /\ p \in pre.written
           /\ MapHas(cache, generateCacheKey(pre.source, p)))
          => (p \in view'.hits /\ p \notin view'.extracted)
      ]_vars

C30_EvictThenWrite ==
    [][TxPut(TRUE) =>
          \A i \in 1..Len(txQueue') :
              txQueue'[i].kind \in {"evictCheck", "evict"} =>
                  txQueue'[i].call # Head(txQueue).call
      ]_vars

\* C29: at the completion of a clear the store is empty and its statistics
\* read size 0, hitCount 0 and missCount 0, in the TextLayerCache and in the
\* IndexedDbCache.
C29_ClearResets ==
    /\ [][TextLayerCache_clear =>
             /\ cache' = <<>>
             /\ hitCount' = 0 /\ missCount' = 0
         ]_vars
    /\ [][("clear" \in SettledOps) =>
             /\ store' = EmptyStore
             /\ cachedCount' = 0
             /\ dbHitCount' = 0 /\ dbMissCount' = 0
         ]_vars

\* C31: a TextLayerCache set of a key that is stored evicts nothing and keeps
\* the number of entries, whatever the size of the store; it replaces the
\* content of that key and resets its lastAccessed and accessCount, and leaves
\* every other entry as it was.
C31_OverwriteKeepsEntries ==
    [][\A s \in MemSources, p \in Pages, c \in Contents :
          LET key == generateCacheKey(s, p)
          IN (TextLayerCache_set(s, p, c) /\ MapHas(cache, key)) =>
                /\ Len(cache') = Len(cache)
                /\ MapKeys(cache') = MapKeys(cache)
                /\ lastWrite'.evicted = ""
                /\ \A k \in MapKeys(cache) \ {key} : MapGet(cache', k) = MapGet(cache, k)
                /\ MapGet(cache', key) = [key |-> key, content |-> c,
                                          lastAccessed |-> now, accessCount |-> 1]
      ]_vars

\* a full store of two entries in which the first inserted key was set again,
\* after a get had hit it
C31_Witness ==
    /\ maxSize = 2 /\ Len(cache) = 2
    /\ hitCount = 1
    /\ lastWrite.op = "set" /\ lastWrite.evicted = ""
    /\ lastUsed = cache[1].key
    /\ lastWrite.content = "t2" /\ cache[1].content = "t2"
    /\ cache[1].accessCount = 1
    /\ cache[1].lastAccessed > cache[2].lastAccessed

\* C32: the entry used last, by a get hit or a set, is not the one that a set
\* of a new key evicts from a full store of two or more entries.
C32_RecentlyUsedSurvives ==
    [][\A s \in MemSources, p \in Pages, c \in Contents :
          (/\ TextLayerCache_set(s, p, c)
           /\ maxSize >= 2
           /\ Len(cache) = maxSize
           /\ ~MapHas(cache, generateCacheKey(s, p))
           /\ MapHas(cache, lastUsed))
          => MapHas(cache', lastUsed)
      ]_vars

\* the keys of the pending descriptors of one type
PendingKeys(type) == {o[2] : o \in {x \in deferredOperations : x[1] = type}}

\* the keys of the batch transactions of one kind that a step adds to the queue
NewBatchKeys(kind) ==
    UNION {txQueue'[i].keys :
             i \in {j \in (Len(txQueue) + 1)..Len(txQueue') : txQueue'[j].kind = kind}}

\* C33: the pending set holds each (type, key) descriptor once at most; a
\* flush that takes the pending descriptors empties the set, so that no later
\* flush finds them; the batches a flush creates hold keys it has taken and no
\* others, the removals it keeps for after its await are the removals it took,
\* and a timer that finds a flush in flight or nothing pending creates no batch.
C33_NoDoubleProcessing ==
    /\ [](deferredOperations \subseteq DeferredOps)
    /\ [][ TimerFires =>
             IF FlushSkipped
             THEN /\ NewBatchKeys("access") = {} /\ NewBatchKeys("remove") = {}
                  /\ deferredOperations' = deferredOperations
             ELSE /\ deferredOperations' = {}
                  /\ NewBatchKeys("access") \subseteq PendingKeys("access")
                  /\ NewBatchKeys("remove") \subseteq PendingKeys("remove")
                  /\ flush'.pc = "accessed" => flush'.removeKeys = PendingKeys("remove")
         ]_vars
    /\ [][ FlushContinue =>
             /\ deferredOperations' = deferredOperations
             /\ NewBatchKeys("access") = {}
             /\ NewBatchKeys("remove") \subseteq
                   (IF flush.pc = "accessed" THEN flush.removeKeys ELSE {})
             /\ Len(txQueue') <= Len(txQueue) + 1
         ]_vars
    /\ [][ (~TimerFires /\ ~FlushContinue) =>
             (NewBatchKeys("access") = {} /\ NewBatchKeys("remove") = {})
         ]_vars

\* a flush has taken the descriptors two reads deferred and has finished; the
\* timer of the second read is still to fire and finds nothing pending
C33_Witness ==
    /\ timers = 1
    /\ dbHitCount + dbMissCount = 2
    /\ deferredOperations = {}
    /\ flush = NoFlush
    /\ Len(DeferredWrites(txQueue)) = 1

\* the onProgress calls made for the task of the i-th page to load
ProgressOf(i) == {j \in 1..Len(pre.progress) : pre.progress[j].task = i}

\* C34: onProgress is called once for every page whose fetch has settled and
\* for no other; the k-th call reports loaded = k, every call reports total = n,
\* the number of pages to load, and loaded never exceeds total.
C34_ProgressOncePerPage ==
    (pre.pc \in {"extracting", "resolved"} /\ pre.onProgress # "none") =>
        /\ \A i \in 1..Len(pre.tasks) :
              Cardinality(ProgressOf(i)) =
                  (IF pre.tasks[i] \in {"fulfilled", "rejected"} THEN 1 ELSE 0)
        /\ \A k \in 1..Len(pre.progress) :
              /\ pre.progress[k].loaded = k
              /\ pre.progress[k].total = Len(pre.pagesToLoad)
              /\ pre.progress[k].loaded <= pre.progress[k].total

\* C35: whenever the opened store has no call, transaction, timer or flush in
\* flight, the counter getStats reports equals the number of entries the
\* database holds, which getStatsAsync counts, and it is never negative.
C35_CounterMatchesStore ==
    /\ cachedCount >= 0
    /\ (Quiescent /\ db) => getStats = StoreCount(store)

\* C36: the transaction of a deferred access-statistics update leaves the set
\* of stored keys as it is, so an entry removed before the flush is not created
\* again; it leaves content, createdAt and expiresAt of every entry as they
\* are, and changes lastAccessed and accessCount of its own keys only, to the
\* time of the flush and to one more.
C36_AccessUpdateFrame ==
    [][TxAccess(TRUE) =>
          LET h == Head(txQueue)
          IN /\ DOMAIN store' = DOMAIN store
             /\ \A k \in DOMAIN store :
                   /\ store'[k].content = store[k].content
                   /\ store'[k].createdAt = store[k].createdAt
                   /\ store'[k].expiresAt = store[k].expiresAt
                   /\ store'[k].key = store[k].key
                   /\ k \notin h.keys => store'[k] = store[k]
                   /\ k \in h.keys => /\ store'[k].lastAccessed = h.at
                                      /\ store'[k].accessCount = store[k].accessCount + 1]_vars

\* a flush has updated the statistics of an entry that a get had hit
C36_Witness ==
    /\ Quiescent
    /\ dbHitCount = 1
    /\ deferredOperations = {}
    /\ \E k \in DOMAIN store :
          /\ store[k].accessCount = 2
          /\ store[k].createdAt = 0
          /\ store[k].lastAccessed = 1

\* C37: when a preload has resolved with success, the cache holds an entry for
\* every requested page that is within the document.
C37_SuccessMeansCached ==
    (pre.pc = "resolved" /\ pre.result.success) =>
        \A i \in 1..Len(pre.validPages) :
            MapHas(cache, generateCacheKey(pre.source, pre.validPages[i]))

\* C38: a cleanup removes every entry that a get at the time the cleanup read
\* treats as expired (expiresAt <= that time): none of them is left in the store
\* when the cleanup completes.
C38_CleanupAgreesWithGet ==
    [][TxCleanup(TRUE) =>
          \A k \in DOMAIN store :
              store[k].expiresAt <= Head(txQueue).at => k \notin DOMAIN store'
      ]_vars

\* opening the database has failed: initialize() rejected without this.db set
OpenFailed == initPromise = "rejected" /\ ~db

\* C39: once opening the database has failed, it stays failed: no step opens
\* the database again or writes to the store, also after the engine has become
\* available; every call that completes resolves with its default value, a get
\* with null and one more miss, a set with nothing written.
C39_FailedInitRemembered ==
    [][OpenFailed =>
          /\ OpenFailed'
          /\ opens' = opens /\ opening' = opening
          /\ store' = store /\ cachedCount' = cachedCount /\ txQueue' = txQueue
          /\ \A c \in DOMAIN calls \ DOMAIN calls' :
                /\ done' = Settled(calls[c].op, calls[c].key, "resolved",
                                   DefaultValue(calls[c].op))
                /\ dbMissCount' = dbMissCount + (IF calls[c].op = "get" THEN 1 ELSE 0)
      ]_vars

\* a get has missed on a host without the engine, the engine has appeared and
\* a second call has gone through ensureInitialized without opening it
C39_Witness ==
    /\ OpenFailed
    /\ available
    /\ opens = 0
    /\ dbMissCount = 1
    /\ done.op = "get"
    /\ DOMAIN calls # {}
    /\ microtasks # <<>>

\* ------------------------------------------------- VuePdfEmbed: rendering
MaxWatchers == 4    \* callbacks of the two rendering watchers run in one behaviour

\* renderingController?.isAborted, for the controller the variable refers to
IsAborted(r) == r.controller # 0 /\ r.controller \in r.aborted

\* the render call of controller k has returned
Returned(r, k) == r.renders[k] \in {"finished", "skipped"}

\* the watcher callbacks awaiting the promise of controller k, in the order
\* in which they began to await it
Awaiting(r, k) ==
    LET ws == {w \in 1..Len(r.watchers) :
                  r.watchers[w].pc \in {"awaitOld", "awaitOwn"} /\ r.watchers[w].on = k}
        Ordered[s \in SUBSET ws] ==
            IF s = {} THEN <<>>
            ELSE LET w == CHOOSE x \in s : \A y \in s : x <= y
                 IN <<w>> \o Ordered[s \ {w}]
    IN Ordered[ws]

\* renderingController = { isAborted: false, promise: render() } and the await
\* of that promise in the callback w: render() runs down to its first await
\* before the variable is assigned, and returns at once if the controller the
\* variable still refers to is aborted
BeginRender(r, w) ==
    LET k == Len(r.renders) + 1
        skipped == IsAborted(r)
    IN [r EXCEPT !.renders = Append(@, IF skipped THEN "skipped" ELSE "getPage"),
                 !.controller = k,
                 !.watchers[w] = [pc |-> "awaitOwn", on |-> k],
                 !.ready = IF skipped THEN Append(@, w) ELSE @]

\* the callback of watch(doc) or of watch(props) is run with a document loaded
WatcherFires ==
    /\ rendering.ready = <<>>
    /\ Len(rendering.watchers) < MaxWatchers
    /\ LET w == Len(rendering.watchers) + 1
           k == rendering.controller
       IN rendering' =
             IF k # 0
             THEN [rendering EXCEPT
                     !.aborted = @ \cup {k},
                     !.watchers = Append(@, [pc |-> "awaitOld", on |-> k]),
                     !.ready = IF Returned(rendering, k) THEN Append(@, w) ELSE @]
             ELSE BeginRender([rendering EXCEPT
                                 !.watchers = Append(@, [pc |-> "done", on |-> 0])], w)
    /\ UNCHANGED <<now, memVars, idbVars, mgr, pre, view, derived>>

\* doc.getPage of the render of controller k resolves: the render returns if
\* renderingController?.isAborted and draws the page otherwise
RenderGotPage(k) ==
    /\ rendering.ready = <<>>
    /\ k \in 1..Len(rendering.renders)
    /\ rendering.renders[k] = "getPage"
    /\ rendering' =
          IF IsAborted(rendering)
          THEN [rendering EXCEPT !.renders[k] = "finished",
                                 !.ready = Awaiting(rendering, k)]
          ELSE [rendering EXCEPT !.renders[k] = "drawing"]
    /\ UNCHANGED <<now, memVars, idbVars, mgr, pre, view, derived>>

\* the render tasks of the page settle: the render of controller k returns
RenderDrawn(k) ==
    /\ rendering.ready = <<>>
    /\ k \in 1..Len(rendering.renders)
    /\ rendering.renders[k] = "drawing"
    /\ rendering' = [rendering EXCEPT !.renders[k] = "finished",
                                      !.ready = Awaiting(rendering, k)]
    /\ UNCHANGED <<now, memVars, idbVars, mgr, pre, view, derived>>

\* the callback at the head of the settled awaits continues: after the await
\* of the aborted controller it starts its own render, after the await of its
\* own render it sets renderingController = null
WatcherResumes ==
    /\ rendering.ready # <<>>
    /\ LET w == Head(rendering.ready)
           r == [rendering EXCEPT !.ready = Tail(@)]
       IN rendering' =
             IF r.watchers[w].pc = "awaitOld"
             THEN BeginRender(r, w)
             ELSE [r EXCEPT !.controller = 0,
                            !.watchers[w] = [pc |-> "done", on |-> 0]]
    /\ UNCHANGED <<now, memVars, idbVars, mgr, pre, view, derived>>

NextRender ==
    \/ WatcherFires
    \/ \E k \in 1..MaxWatchers : RenderGotPage(k)
    \/ \E k \in 1..MaxWatchers : RenderDrawn(k)
    \/ WatcherResumes

SpecRender == InitPreload /\ [][NextRender]_vars

\* the render calls in progress whose controller is not marked aborted
LiveRenders ==
    {k \in 1..Len(rendering.renders) :
        ~Returned(rendering, k) /\ k \notin rendering.aborted}

\* C40: at most one render whose controller is not aborted is in progress, and
\* while the render started last is in progress renderingController refers to
\* its controller.
C40_OneLiveRender ==
    /\ Cardinality(LiveRenders) <= 1
    /\ \A k \in 1..Len(rendering.renders) :
          (k = Len(rendering.renders) /\ ~Returned(rendering, k))
              => rendering.controller = k

====
